---- MODULE Spec2Model ----
(***************************************************************************)
(* Catalogue Coordinator: consistent-hash ring, health supervisor and      *)
(* placement driver, modelled from src/utils/hash_ring/consistent_hash.py, *)
(* src/utils/node_monitor/health_checker.py,                               *)
(* src/utils/dlt_comm/offering_processor.py and                            *)
(* src/utils/dlt_comm/get_nodes.py.                                        *)
(*                                                                         *)
(* Modelling notes.                                                        *)
(*  - A node dictionary is modelled by the two fields the ring and the     *)
(*    health checker read and write: 'id' and 'status'.  The registry      *)
(*    records are taken to carry the 'id' field that health_checker.py:52  *)
(*    and consistent_hash.py:70 read, and the names offering_processor.py  *)
(*    uses (redis, OFFERING_DESC_TIMEOUT, OFFERING_REPLICA_COUNT) are taken *)
(*    to resolve; config.py gives OFFERING_REPLICA_COUNT no value, the      *)
(*    model uses the documented default.                                    *)
(*  - _hash (MD5 of the key, 128 bit) is modelled by a fixed injective     *)
(*    mixing function on the virtual-slot keys "{id}-{i}" (HashV) and a    *)
(*    fixed bijection on the offering keys (HashK); both land in           *)
(*    0..HashSpace-1, so a key may hash below, onto, between and above the *)
(*    slots.                                                               *)
(*  - A Python dict whose keys went through json.dumps/json.loads has      *)
(*    string keys.  A ring therefore carries two dictionaries: ring (the   *)
(*    integer-keyed entries written by add_node) and sring (the entries    *)
(*    with string keys obtained from _load_from_redis).  Lookups by an     *)
(*    integer hash see only ring.                                          *)
(***************************************************************************)
EXTENDS Integers, Sequences, FiniteSets, TLC

VARIABLES
    hash_ring,        \* the ConsistentHashRing instance of the component under study
    kv_hash_ring,     \* KV key 'hash_ring': the saved snapshot, or NoSnapshot
    last_op,          \* history: the last ring operation, <<name, argument,
                      \* whether the operation before it was the same one>>
    now,              \* time.time() at the last health cycle, in seconds
    cycles,           \* number of health cycles run so far
    node_failures,    \* NodeHealthChecker.node_failures: node id -> first failure time
    healthy_nodes,    \* the list get_healthy_nodes returned last (node ids)
    kv_node_offerings,\* KV sets 'node_offerings:{id}'
    kv_offering,      \* the offering ids x for which KV key 'offering:{x}' exists
    kv_offering_node, \* KV keys 'offering_node:{x}', NoNode when absent
    cycle_log,        \* history: what the last health cycle did
    deaths,           \* history: death actions run for a node since its last successful probe
    cleared_at,       \* history: node id -> the time a successful probe last deleted
                      \* its failure record
    proc_log,         \* history: the last process_offering call and what it returned
    pool,             \* the WorkerPool instance: results, the futures of its executor
    pool_log,         \* history: the last WorkerPool call and what it returned
    poll,             \* the placement poller: processed_offerings_cache and its last tick
    race,             \* one process_offering call and one death action, step by step
    registry,         \* KV set 'all_nodes', the hashes 'node:{owner}', and the
                      \* nodes the supervisor has declared dead
    api_log,          \* history: the last discovery call or /sparql request
    kvs,              \* the remote KV store, the clients get_redis_client has
                      \* returned, and the last KV call
    sup,              \* the outer supervisor of main.py and its three processes
    mon,              \* the NodeMonitor failover variant: active and down nodes,
                      \* the listing pointers, and what its last check did
    meta_log          \* history: the last get_offerings_meta_for_processing call

ringVars == <<hash_ring, kv_hash_ring, last_op>>

healthVars == <<now, cycles, node_failures, healthy_nodes, cycle_log, deaths, cleared_at>>

kvVars == <<kv_node_offerings, kv_offering, kv_offering_node>>

mainVars == <<sup, mon, meta_log>>

restVars == <<registry, api_log, kvs, sup, mon, meta_log>>

auxVars == <<pool, pool_log, poll, race, registry, api_log, kvs, sup, mon,
            meta_log>>

vars == <<hash_ring, kv_hash_ring, last_op, now, cycles, node_failures, healthy_nodes,
          kv_node_offerings, kv_offering, kv_offering_node, cycle_log, deaths,
          cleared_at,
          proc_log, pool, pool_log, poll, race,
          registry, api_log, kvs, sup, mon, meta_log>>

----------------------------------------------------------------------------
(* Bounds and program constants *)

Nodes == {"A", "B", "C"}

NodeIdx(n) == CASE n = "A" -> 0 [] n = "B" -> 1 [] OTHER -> 2

NumNodes == Cardinality(Nodes)

\* virtual_nodes (150 in the source), scaled down
VirtualNodes == 2

\* replica counts tried by the ring claims: 0..MaxReplicas
MaxReplicas == 3

\* sorted_keys may hold stale duplicates after a reload; the model lets it grow
\* to the slots of NumNodes + ExtraNodes nodes
ExtraNodes == 1

SlotCap == (NumNodes + ExtraNodes) * VirtualNodes

HashSpace == 2 * NumNodes * VirtualNodes + 2

Keys == 0 .. (HashSpace - 1)

NoNode == "None"

KeyError == "KeyError"

NoSnapshot == [absent |-> TRUE]

\* the offering ids (routing keys) with records in the KV store, a subset of
\* Keys
Offerings == {1}

\* health cycles per behaviour
MaxCycles == 4

\* NodeHealthChecker.grace_period, NODE_GRACE_PERIOD
GracePeriod == 60

\* NODE_HEALTH_CHECK_INTERVAL
CheckInterval == 30

\* replica_count of redistribute_offerings
RedistributeReplicas == 2

\* OFFERING_REPLICA_COUNT of process_offering
OfferingReplicaCount == 2

\* the KV writes of one _update_offering_assignment call
KvWrites == 3

----------------------------------------------------------------------------
(* _hash *)

\* _hash(f"{node_id}-{i}"): injective on Nodes x 0..VirtualNodes-1, odd positions
HashV(node_id, i) == 2 * (NumNodes * i + ((NodeIdx(node_id) + i) % NumNodes)) + 1

\* _hash(key) for an offering key: a bijection on Keys
HashK(key) == (3 * key + 8) % HashSpace

----------------------------------------------------------------------------
(* Python helpers *)

DictPut(d, k, v) == [x \in (DOMAIN d) \cup {k} |-> IF x = k THEN v ELSE d[x]]

DictDel(d, k) == [x \in (DOMAIN d) \ {k} |-> d[x]]

EmptyDict == [x \in {} |-> NoNode]

RECURSIVE ListInsert(_, _)
ListInsert(s, x) ==
    IF s = <<>> THEN <<x>>
    ELSE IF x <= Head(s) THEN <<x>> \o s
    ELSE <<Head(s)>> \o ListInsert(Tail(s), x)

\* list.sort()
RECURSIVE ListSort(_)
ListSort(s) == IF s = <<>> THEN <<>> ELSE ListInsert(ListSort(Tail(s)), Head(s))

\* list.remove(x): drops the first occurrence; ValueError is swallowed by the caller
RECURSIVE ListRemove(_, _)
ListRemove(s, x) ==
    IF s = <<>> THEN <<>>
    ELSE IF Head(s) = x THEN Tail(s)
    ELSE <<Head(s)>> \o ListRemove(Tail(s), x)

SeqRange(s) == {s[i] : i \in 1 .. Len(s)}

\* the elements of a finite set of integers in ascending order
RECURSIVE Ascending(_)
Ascending(S) ==
    IF S = {} THEN <<>>
    ELSE LET m == CHOOSE x \in S : \A y \in S : x <= y
         IN <<m>> \o Ascending(S \ {m})

\* nodes[:n] for n >= 0
Prefix(s, n) == SubSeq(s, 1, IF n < Len(s) THEN n ELSE Len(s))

NodeIds(r) == {r.nodes[i].id : i \in 1 .. Len(r.nodes)}

\* [n for n in nodes if n['id'] != node_id]
RECURSIVE NodesWithout(_, _)
NodesWithout(nodes, node_id) ==
    IF nodes = <<>> THEN <<>>
    ELSE IF Head(nodes).id = node_id THEN NodesWithout(Tail(nodes), node_id)
    ELSE <<Head(nodes)>> \o NodesWithout(Tail(nodes), node_id)

----------------------------------------------------------------------------
(* ConsistentHashRing *)

\* __init__ before _load_from_redis
EmptyRing == [ring |-> EmptyDict, sring |-> EmptyDict, sorted_keys |-> <<>>, nodes |-> <<>>]

\* json.dumps(ring_state): every dictionary key becomes a string; an integer key
\* and the string key of the same number collapse on load, the later one (the
\* integer key, inserted after the load) winning
JsonOfRing(r) ==
    [ring |-> [h \in (DOMAIN r.ring) \cup (DOMAIN r.sring) |->
                  IF h \in DOMAIN r.ring THEN r.ring[h] ELSE r.sring[h]],
     sorted_keys |-> r.sorted_keys,
     nodes |-> r.nodes]

\* _load_from_redis: ok = the KV answered
_load_from_redis(r, snapshot, ok) ==
    IF ok /\ snapshot # NoSnapshot
    THEN [ring |-> EmptyDict, sring |-> snapshot.ring,
          sorted_keys |-> snapshot.sorted_keys, nodes |-> snapshot.nodes]
    ELSE r

\* _save_to_redis: the new value of KV 'hash_ring'; ok = the KV answered
_save_to_redis(r, snapshot, ok) == IF ok THEN JsonOfRing(r) ELSE snapshot

\* the loop body of add_node for i = from .. VirtualNodes-1
RECURSIVE AddSlots(_, _, _)
AddSlots(r, node_id, i) ==
    IF i >= VirtualNodes THEN r
    ELSE AddSlots([r EXCEPT !.ring = DictPut(r.ring, HashV(node_id, i), node_id),
                            !.sorted_keys = Append(r.sorted_keys, HashV(node_id, i))],
                  node_id, i + 1)

\* add_node that writes the new slots under the first node of the list instead
\* of node_id (a mutant of add_node)
add_node_firstowner(r, node) ==
    IF node.id \in NodeIds(r) THEN r
    ELSE LET r1 == [r EXCEPT !.nodes = Append(r.nodes, node)]
             r2 == AddSlots(r1, node.id, 0)
         IN [r2 EXCEPT !.ring = [h \in DOMAIN r2.ring |->
                                    IF h \in DOMAIN r.ring THEN r2.ring[h]
                                    ELSE r1.nodes[1].id],
                       !.sorted_keys = ListSort(r2.sorted_keys)]

\* add_node without its membership test (a mutant of add_node)
add_node_nocheck(r, node) ==
    LET r1 == [r EXCEPT !.nodes = Append(r.nodes, node)]
        r2 == AddSlots(r1, node.id, 0)
    IN [r2 EXCEPT !.sorted_keys = ListSort(r2.sorted_keys)]

\* add_node: the ring after the call (the save is done by the caller action)
add_node(r, node) ==
    IF node.id \in NodeIds(r) THEN r
    ELSE LET r1 == [r EXCEPT !.nodes = Append(r.nodes, node)]
             r2 == AddSlots(r1, node.id, 0)
         IN [r2 EXCEPT !.sorted_keys = ListSort(r2.sorted_keys)]

\* add_node saves only when it added the node
add_node_saves(r, node) == node.id \notin NodeIds(r)

\* the loop of remove_node for i = from .. VirtualNodes-1
RECURSIVE RemoveSlots(_, _, _)
RemoveSlots(r, node_id, i) ==
    IF i >= VirtualNodes THEN r
    ELSE LET h == HashV(node_id, i) IN
         IF h \in DOMAIN r.ring
         THEN RemoveSlots([r EXCEPT !.ring = DictDel(r.ring, h),
                                    !.sorted_keys = ListRemove(r.sorted_keys, h)],
                          node_id, i + 1)
         ELSE RemoveSlots(r, node_id, i + 1)

\* remove_node that drops the node from the node list but leaves its slots (a
\* mutant of remove_node)
remove_node_nodesonly(r, node_id) ==
    [r EXCEPT !.nodes = NodesWithout(r.nodes, node_id)]

\* remove_node: the ring after the call (it always saves)
remove_node(r, node_id) ==
    LET r1 == RemoveSlots(r, node_id, 0)
    IN [r1 EXCEPT !.nodes = NodesWithout(r1.nodes, node_id)]

\* update_node_status: the first node with that id gets the status
RECURSIVE SetStatus(_, _, _)
SetStatus(nodes, node_id, status) ==
    IF nodes = <<>> THEN <<>>
    ELSE IF Head(nodes).id = node_id
         THEN <<[Head(nodes) EXCEPT !.status = status]>> \o Tail(nodes)
         ELSE <<Head(nodes)>> \o SetStatus(Tail(nodes), node_id, status)

update_node_status(r, node_id, status) ==
    [r EXCEPT !.nodes = SetStatus(r.nodes, node_id, status)]

\* update_node_status saves only when it found the node
update_node_status_saves(r, node_id) == node_id \in NodeIds(r)

\* next((n for n in self.nodes if n['id'] == node_id), None), as the id
NodeById(r, node_id) == IF node_id \in NodeIds(r) THEN node_id ELSE NoNode

\* the scan of get_node from index i: first sorted key >= hash_value
RECURSIVE GetNodeScan(_, _, _)
GetNodeScan(r, hash_value, i) ==
    IF i > Len(r.sorted_keys)
    THEN \* wrap around to the first key
         LET first_key == r.sorted_keys[1] IN
         IF first_key \in DOMAIN r.ring THEN NodeById(r, r.ring[first_key]) ELSE KeyError
    ELSE LET sorted_key == r.sorted_keys[i] IN
         IF sorted_key >= hash_value
         THEN IF sorted_key \in DOMAIN r.ring
              THEN NodeById(r, r.ring[sorted_key])
              ELSE KeyError
         ELSE GetNodeScan(r, hash_value, i + 1)

\* get_node: the owner's id, NoNode (None), or KeyError (the call raised)
get_node(r, key) ==
    IF r.sorted_keys = <<>> THEN NoNode
    ELSE GetNodeScan(r, HashK(key), 1)

\* one for-loop of get_nodes_for_key from index i; ge = the loop keeps only
\* sorted_key >= hash_value (the first loop)
RECURSIVE ReplicaScan(_, _, _, _, _, _)
ReplicaScan(r, hash_value, replica_count, i, acc, ge) ==
    IF i > Len(r.sorted_keys) THEN [raised |-> FALSE, nodes |-> acc]
    ELSE LET sorted_key == r.sorted_keys[i] IN
         IF ge /\ ~(sorted_key >= hash_value)
         THEN ReplicaScan(r, hash_value, replica_count, i + 1, acc, ge)
         ELSE IF sorted_key \notin DOMAIN r.ring
         THEN [raised |-> TRUE, nodes |-> acc]
         ELSE LET node_id == r.ring[sorted_key] IN
              IF node_id \in SeqRange(acc) \/ NodeById(r, node_id) = NoNode
              THEN ReplicaScan(r, hash_value, replica_count, i + 1, acc, ge)
              ELSE IF Len(acc) + 1 >= replica_count
                   THEN [raised |-> FALSE, nodes |-> Append(acc, node_id)]
                   ELSE ReplicaScan(r, hash_value, replica_count, i + 1,
                                    Append(acc, node_id), ge)

\* get_nodes_for_key: [raised, nodes]; raised = the call raised KeyError,
\* nodes = the ids of the returned node list
get_nodes_for_key(r, key, replica_count) ==
    IF r.sorted_keys = <<>> THEN [raised |-> FALSE, nodes |-> <<>>]
    ELSE LET first == ReplicaScan(r, HashK(key), replica_count, 1, <<>>, TRUE) IN
         IF first.raised THEN first
         ELSE IF Len(first.nodes) < replica_count
         THEN LET second == ReplicaScan(r, HashK(key), replica_count, 1, first.nodes, FALSE)
              IN [raised |-> second.raised, nodes |-> Prefix(second.nodes, replica_count)]
         ELSE [raised |-> FALSE, nodes |-> Prefix(first.nodes, replica_count)]

----------------------------------------------------------------------------
(* SpecRing: one ConsistentHashRing instance and the KV snapshot, driven by  *)
(* every sequence of its public operations.                                *)

NodeDict(n) == [id |-> n, status |-> "healthy"]

\* what a health cycle did: the nodes whose death action ran (in order), the
\* node_offerings sets just before and just after each death action, the
\* accepted POSTs <<dead node, offering, target>>, the nodes whose probe failed
\* and the nodes whose probe succeeded after their death action had run
EmptyLog ==
    [died |-> <<>>, before |-> EmptyDict, after |-> EmptyDict, redist |-> {},
     failed |-> {}, revived |-> {}]

InitIdleHealth ==
    /\ now = 0
    /\ cycles = 0
    /\ node_failures = EmptyDict
    /\ healthy_nodes = <<>>
    /\ cycle_log = EmptyLog
    /\ deaths = [n \in Nodes |-> 0]
    /\ cleared_at = EmptyDict

InitEmptyKV ==
    /\ kv_node_offerings = [n \in Nodes |-> {}]
    /\ kv_offering = {}
    /\ kv_offering_node = [x \in Offerings |-> NoNode]

\* no process_offering call yet
NoProcess ==
    [called |-> FALSE, id |-> 0, has_uri |-> FALSE, fetch_ok |-> FALSE,
     raised |-> FALSE, targets |-> <<>>, accepted |-> {}, returned |-> FALSE]

\* WorkerPool(): no task yet (worker_pool.py:15-23); clock is the millisecond
\* the last task id was made from
NewPool ==
    [results |-> EmptyDict, futures |-> <<>>, is_running |-> FALSE, clock |-> 0]

\* the record of a task id that is not in results
NoTask ==
    [future |-> 0, status |-> "not_found", result |-> "None", error |-> "None"]

\* no WorkerPool call yet; timed_out is the set of task ids whose result call
\* timed out since they were submitted
NoCall ==
    [op |-> "none", id |-> 0, ret |-> "None", before |-> NoTask,
     fstate |-> "none", had_timed_out |-> FALSE, timed_out |-> {},
     own_error |-> FALSE, ids |-> <<>>, first |-> 0]

\* setup_worker_pool before its first listing: an empty processed set
NewPoller ==
    [pc |-> "initial", cache |-> {}, ticks |-> 0, listed |-> <<>>, new |-> <<>>,
     seen_before |-> {}, failed_before |-> {}]

\* neither a process_offering call nor a death action under way
NoRace ==
    [ppc |-> "idle", dpc |-> "idle", d |-> NoNode, x |-> 0, wnodes |-> {},
     targets |-> <<>>, i |-> 0, stores |-> 0, returned |-> FALSE,
     failed_offerings |-> {}, new_nodes |-> <<>>, j |-> 0]

InitIdleWorkers ==
    /\ pool = NewPool
    /\ pool_log = NoCall
    /\ poll = NewPoller

\* an empty registry, no node declared dead
NoRegistry == [all_nodes |-> {}, node |-> EmptyDict, dead |-> {}]

\* no discovery call and no /sparql request yet
\* (failed: the kind of request that failed in a discovery call; others: the
\* owners of the offerings with a descriptionUri whose metadata request did not
\* fail; kept: whether the call left the registry as it was)
NoRequest ==
    [op |-> "none", index_ok |-> TRUE, failed |-> "none", others |-> {},
     kept |-> TRUE, returned |-> <<>>,
     query |-> "", live |-> {}, status |-> 0, forwarded |-> FALSE, services |-> <<>>]

\* the result of a KV call that returned None
NoResult ==
    [kind |-> "none", str |-> "", num |-> 0, keys |-> {}, pairs |-> {}, members |-> {}]

\* the remote store empty and reachable, no client obtained, no KV call yet
\* (written: the values set through fallback clients during the outage;
\* log: the last KV call, ref being the result of the same call on a remote
\* store that received the same calls as the client)
NoKvs ==
    [reachable |-> TRUE, remote |-> EmptyDict, clients |-> <<>>,
     written |-> EmptyDict,
     log |-> [op |-> "none", client |-> 0, kind |-> "none", key |-> <<>>,
              down |-> FALSE, expect |-> "", ret |-> NoResult, ref |-> NoResult]]

InitIdleApi ==
    /\ registry = NoRegistry
    /\ api_log = NoRequest
    /\ kvs = NoKvs

\* the three processes main() starts, in the order it checks them
Procs == <<"FlaskAPI", "NodeMonitor", "WorkerPool">>

\* main() up to line 140: the three processes started, the supervisor about to
\* check the first one (starts: how often each process has been started)
NoSup ==
    [running |-> TRUE, pc |-> 1,
     alive |-> [p \in 1 .. 3 |-> TRUE], starts |-> [p \in 1 .. 3 |-> 1]]

\* NodeMonitor(): no node seen yet (node_monitor.py:55-56), no pointer stored
\* (targets: the ids in the pointer of a listing; posted: the nodes a POST of
\* the listing has succeeded on; failed_for: the down nodes the pointer was
\* last rewritten for; attempted, retried: the listings the last check
\* redistributed, and those of them whose pointer named an unposted target;
\* odd: the parity of the number of checks)
NoMon ==
    [active |-> {}, down |-> {},
     targets |-> [x \in Offerings |-> {}], posted |-> [x \in Offerings |-> {}],
     failed_for |-> [x \in Offerings |-> {}],
     attempted |-> {}, retried |-> {}, failover |-> FALSE, odd |-> FALSE]

\* no listing call yet
NoListing ==
    [called |-> FALSE, addresses |-> <<>>, faulty |-> {}, ids |-> <<>>,
     metas |-> <<>>]

InitIdleMain ==
    /\ sup = NoSup
    /\ mon = NoMon
    /\ meta_log = NoListing

InitIdle ==
    /\ InitIdleWorkers
    /\ race = NoRace
    /\ InitIdleApi
    /\ InitIdleMain

InitRing ==
    /\ InitIdle
    /\ hash_ring = EmptyRing
    /\ kv_hash_ring = NoSnapshot
    /\ last_op = <<"init", NoNode, FALSE>>
    /\ InitIdleHealth
    /\ InitEmptyKV
    /\ proc_log = NoProcess

Record(op, arg) ==
    /\ last_op' = <<op, arg, last_op[1] = op /\ last_op[2] = arg>>
    /\ UNCHANGED <<healthVars, kvVars, proc_log, auxVars>>

\* ConsistentHashRing.add_node(node)
RingAdd(n) ==
    \E ok \in BOOLEAN :
        /\ n \in NodeIds(hash_ring) \/ Len(hash_ring.sorted_keys) + VirtualNodes <= SlotCap
        /\ hash_ring' = add_node(hash_ring, NodeDict(n))
        /\ kv_hash_ring' = IF add_node_saves(hash_ring, NodeDict(n))
                           THEN _save_to_redis(hash_ring', kv_hash_ring, ok)
                           ELSE kv_hash_ring
        /\ Record("add", n)

\* ConsistentHashRing.remove_node(node_id)
RingRemove(n) ==
    \E ok \in BOOLEAN :
        /\ hash_ring' = remove_node(hash_ring, n)
        /\ kv_hash_ring' = _save_to_redis(hash_ring', kv_hash_ring, ok)
        /\ Record("remove", n)

\* ConsistentHashRing(redis_config): a newly constructed instance replaces the
\* old one (process restart, or a new OfferingProcessor)
RingNew ==
    \E ok \in BOOLEAN :
        /\ hash_ring' = _load_from_redis(EmptyRing, kv_hash_ring, ok)
        /\ UNCHANGED kv_hash_ring
        /\ Record("new", NoNode)

NextRing ==
    \/ \E n \in Nodes : RingAdd(n)
    \/ \E n \in Nodes : RingRemove(n)
    \/ RingNew

SpecRing == InitRing /\ [][NextRing]_vars

----------------------------------------------------------------------------
(* NodeHealthChecker and redistribute_offerings.                           *)
(* A cycle state st carries what one health cycle reads and writes:        *)
(* ring, snap = KV hash_ring, failures, healthy, nofs = the node_offerings  *)
(* sets, payload = the ids with an offering record, and the history fields *)
(* died, before, redist, failed, deaths.                                   *)

\* the 'status' field of the registry record node:{id}: discover_and_store_nodes
\* writes 'healthy' and nothing rewrites the record
RegistryStatus(n) == "healthy"

\* get_node_list: the records of all_nodes, in the order the set is iterated
get_node_list == Nodes

\* the nodes of S in the order of their index
RECURSIVE Ascending2(_)
Ascending2(S) ==
    IF S = {} THEN <<>>
    ELSE LET n == CHOOSE x \in S : \A y \in S : NodeIdx(x) <= NodeIdx(y)
         IN <<n>> \o Ascending2(S \ {n})

\* all orders in which a set can be iterated
Orders(S) == {o \in [1 .. Cardinality(S) -> S] : \A i, j \in DOMAIN o : i # j => o[i] # o[j]}

\* the inner loop of redistribute_offerings over new_nodes[i..]: posted = the
\* nodes whose /manager answers 200 or 201
RECURSIVE RedistributeTo(_, _, _, _, _, _)
RedistributeTo(st, d, x, new_nodes, i, posted) ==
    IF i > Len(new_nodes) THEN st
    ELSE LET t == new_nodes[i] IN
         IF t \in posted
         THEN RedistributeTo(
                  [st EXCEPT !.nofs = [st.nofs EXCEPT ![t] = @ \cup {x}],
                             !.payload = @ \ {x},
                             !.redist = @ \cup {<<d, x, t>>}],
                  d, x, new_nodes, i + 1, posted)
         ELSE RedistributeTo(st, d, x, new_nodes, i + 1, posted)

\* the loop of redistribute_offerings over the offerings xs[i..] of the failed
\* node; [st, raised]
RECURSIVE RedistributeLoop(_, _, _, _, _)
RedistributeLoop(st, d, xs, i, posted) ==
    IF i > Len(xs) THEN [st |-> st, raised |-> FALSE]
    ELSE LET x == xs[i] IN
         IF x \in st.payload
         THEN LET new_nodes == get_nodes_for_key(st.ring, x, RedistributeReplicas) IN
              IF new_nodes.raised THEN [st |-> st, raised |-> TRUE]
              ELSE RedistributeLoop(RedistributeTo(st, d, x, new_nodes.nodes, 1, posted),
                                    d, xs, i + 1, posted)
         ELSE RedistributeLoop(st, d, xs, i + 1, posted)

\* redistribute_offerings(failed_node_id): an exception leaves the loop and
\* skips the final delete
redistribute_offerings(st, failed_node_id, posted) ==
    LET res == RedistributeLoop(st, failed_node_id,
                                Ascending(st.nofs[failed_node_id]), 1, posted)
    IN IF res.raised THEN res.st
       ELSE [res.st EXCEPT !.nofs = [res.st.nofs EXCEPT ![failed_node_id] = {}]]

\* the locked block of get_healthy_nodes: mark unhealthy, redistribute, remove
DeathAction(st, node_id, posted) ==
    LET s1 == IF RegistryStatus(node_id) # "unhealthy"
              THEN LET r == update_node_status(st.ring, node_id, "unhealthy") IN
                   [st EXCEPT !.ring = r,
                              !.snap = IF update_node_status_saves(st.ring, node_id)
                                       THEN _save_to_redis(r, st.snap, TRUE)
                                       ELSE st.snap]
              ELSE st
        s2 == redistribute_offerings(s1, node_id, posted)
        r3 == remove_node(s2.ring, node_id)
    IN [s2 EXCEPT !.ring = r3,
                  !.snap = _save_to_redis(r3, s2.snap, TRUE),
                  !.died = Append(@, node_id),
                  !.before = DictPut(@, node_id, st.nofs[node_id]),
                  !.after = DictPut(@, node_id, s2.nofs),
                  !.deaths = [@ EXCEPT ![node_id] = @ + 1]]

\* one iteration of the loop of get_healthy_nodes with no grace period: the
\* death action runs at the first failed probe (a mutant of ProbeNode)
ProbeNodeNoGrace(st, node_id, up, posted, current_time) ==
    IF node_id \in up
    THEN LET s1 == [st EXCEPT !.failures = DictDel(@, node_id),
                              !.revived = IF st.deaths[node_id] >= 1
                                          THEN @ \cup {node_id} ELSE @,
                              !.deaths = [@ EXCEPT ![node_id] = 0]]
             s2 == IF RegistryStatus(node_id) # "healthy"
                   THEN LET r == update_node_status(s1.ring, node_id, "healthy") IN
                        [s1 EXCEPT !.ring = r,
                                   !.snap = IF update_node_status_saves(s1.ring, node_id)
                                            THEN _save_to_redis(r, s1.snap, TRUE)
                                            ELSE s1.snap]
                   ELSE s1
         IN [s2 EXCEPT !.healthy = Append(@, node_id)]
    ELSE LET s1 == [st EXCEPT !.failures = IF node_id \in DOMAIN @ THEN @
                                           ELSE DictPut(@, node_id, current_time),
                              !.failed = @ \cup {node_id}]
         IN DeathAction(s1, node_id, posted)

\* one iteration of the loop of get_healthy_nodes that tests the grace period
\* with > instead of >= (a mutant of ProbeNode)
ProbeNodeStrict(st, node_id, up, posted, current_time) ==
    IF node_id \in up
    THEN LET s1 == [st EXCEPT !.failures = DictDel(@, node_id),
                              !.revived = IF st.deaths[node_id] >= 1
                                          THEN @ \cup {node_id} ELSE @,
                              !.deaths = [@ EXCEPT ![node_id] = 0]]
             s2 == IF RegistryStatus(node_id) # "healthy"
                   THEN LET r == update_node_status(s1.ring, node_id, "healthy") IN
                        [s1 EXCEPT !.ring = r,
                                   !.snap = IF update_node_status_saves(s1.ring, node_id)
                                            THEN _save_to_redis(r, s1.snap, TRUE)
                                            ELSE s1.snap]
                   ELSE s1
         IN [s2 EXCEPT !.healthy = Append(@, node_id)]
    ELSE LET s1 == [st EXCEPT !.failures = IF node_id \in DOMAIN @ THEN @
                                           ELSE DictPut(@, node_id, current_time),
                              !.failed = @ \cup {node_id}]
             failure_time == s1.failures[node_id]
         IN IF current_time - failure_time > GracePeriod
            THEN DeathAction(s1, node_id, posted)
            ELSE [s1 EXCEPT !.healthy = Append(@, node_id)]

\* ProbeNode that keeps the failure record of a node that answers (a mutant
\* of ProbeNode)
ProbeNodeKeepsFailure(st, node_id, up, posted, current_time) ==
    IF node_id \in up
    THEN LET s1 == [st EXCEPT !.revived = IF st.deaths[node_id] >= 1
                                          THEN @ \cup {node_id} ELSE @,
                              !.deaths = [@ EXCEPT ![node_id] = 0]]
             s2 == IF RegistryStatus(node_id) # "healthy"
                   THEN LET r == update_node_status(s1.ring, node_id, "healthy") IN
                        [s1 EXCEPT !.ring = r,
                                   !.snap = IF update_node_status_saves(s1.ring, node_id)
                                            THEN _save_to_redis(r, s1.snap, TRUE)
                                            ELSE s1.snap]
                   ELSE s1
         IN [s2 EXCEPT !.healthy = Append(@, node_id)]
    ELSE LET s1 == [st EXCEPT !.failures = IF node_id \in DOMAIN @ THEN @
                                           ELSE DictPut(@, node_id, current_time),
                              !.failed = @ \cup {node_id}]
             failure_time == s1.failures[node_id]
         IN IF current_time - failure_time >= GracePeriod
            THEN DeathAction(s1, node_id, posted)
            ELSE [s1 EXCEPT !.healthy = Append(@, node_id)]

\* one iteration of the loop of get_healthy_nodes: up = the nodes whose /test
\* answers 200
ProbeNode(st, node_id, up, posted, current_time) ==
    IF node_id \in up
    THEN LET s1 == [st EXCEPT !.failures = DictDel(@, node_id),
                              !.revived = IF st.deaths[node_id] >= 1
                                          THEN @ \cup {node_id} ELSE @,
                              !.deaths = [@ EXCEPT ![node_id] = 0]]
             s2 == IF RegistryStatus(node_id) # "healthy"
                   THEN LET r == update_node_status(s1.ring, node_id, "healthy") IN
                        [s1 EXCEPT !.ring = r,
                                   !.snap = IF update_node_status_saves(s1.ring, node_id)
                                            THEN _save_to_redis(r, s1.snap, TRUE)
                                            ELSE s1.snap]
                   ELSE s1
         IN [s2 EXCEPT !.healthy = Append(@, node_id)]
    ELSE LET s1 == [st EXCEPT !.failures = IF node_id \in DOMAIN @ THEN @
                                           ELSE DictPut(@, node_id, current_time),
                              !.failed = @ \cup {node_id}]
             failure_time == s1.failures[node_id]
         IN IF current_time - failure_time >= GracePeriod
            THEN DeathAction(s1, node_id, posted)
            ELSE [s1 EXCEPT !.healthy = Append(@, node_id)]

\* get_healthy_nodes: the loop over all_nodes[i..]
RECURSIVE get_healthy_nodes(_, _, _, _, _, _)
get_healthy_nodes(st, all_nodes, i, up, posted, current_time) ==
    IF i > Len(all_nodes) THEN st
    ELSE get_healthy_nodes(ProbeNode(st, all_nodes[i], up, posted, current_time),
                           all_nodes, i + 1, up, posted, current_time)

\* run_health_check_cycle without its add loop (a mutant of AddHealthy)
AddHealthyNone(st, i) == st

\* the loop of run_health_check_cycle over healthy_nodes[i..]: every node of the
\* list has status 'healthy' (set on success, read from the registry otherwise)
RECURSIVE AddHealthy(_, _)
AddHealthy(st, i) ==
    IF i > Len(st.healthy) THEN st
    ELSE LET n == st.healthy[i]
             r == add_node(st.ring, NodeDict(n))
         IN AddHealthy([st EXCEPT !.ring = r,
                                  !.snap = IF add_node_saves(st.ring, NodeDict(n))
                                           THEN _save_to_redis(r, st.snap, TRUE)
                                           ELSE st.snap],
                       i + 1)

\* run_health_check_cycle
run_health_check_cycle(st, all_nodes, up, posted, current_time) ==
    AddHealthy(get_healthy_nodes(st, all_nodes, 1, up, posted, current_time), 1)

CycleStart ==
    [ring |-> hash_ring, snap |-> kv_hash_ring, failures |-> node_failures,
     healthy |-> <<>>, nofs |-> kv_node_offerings, payload |-> kv_offering,
     died |-> <<>>, before |-> EmptyDict, after |-> EmptyDict, redist |-> {},
     failed |-> {}, revived |-> {},
     deaths |-> deaths]

\* the nodes a cycle at current_time declares dead if their probe fails
Expired(current_time) ==
    {n \in DOMAIN node_failures : current_time - node_failures[n] >= GracePeriod}

\* the iteration orders of all_nodes that a cycle can tell apart: the order
\* only matters to the KV when two death actions run in the same cycle
CycleOrders(dying) ==
    IF Cardinality(dying) >= 2 THEN Orders(get_node_list)
    ELSE {Ascending2(get_node_list)}

\* the /manager answers that a cycle can tell apart: no POST is made unless a
\* dying node holds an offering whose payload is stored, and only nodes of the
\* ring are POSTed to
CyclePosts(dying) ==
    IF \E d \in dying : kv_node_offerings[d] \cap kv_offering # {}
    THEN SUBSET NodeIds(hash_ring)
    ELSE {{}}

\* one pass of the loop of start_monitoring: a cycle, then the sleep
CycleBody ==
    /\ cycles < MaxCycles
    /\ \E up \in SUBSET Nodes :
       \E current_time \in {IF cycles = 0 THEN 0 ELSE now + CheckInterval} :
       \E dying \in {Expired(current_time) \ up} :
       \E order \in CycleOrders(dying), posted \in CyclePosts(dying) :
       \E st \in {run_health_check_cycle(CycleStart, order, up, posted, current_time)} :
             /\ now' = current_time
             /\ cycles' = cycles + 1
             /\ hash_ring' = st.ring
             /\ kv_hash_ring' = st.snap
             /\ node_failures' = st.failures
             /\ healthy_nodes' = st.healthy
             /\ kv_node_offerings' = st.nofs
             /\ kv_offering' = st.payload
             /\ cycle_log' = [died |-> st.died, before |-> st.before,
                              after |-> st.after, redist |-> st.redist,
                              failed |-> st.failed, revived |-> st.revived]
             /\ deaths' = st.deaths
             /\ UNCHANGED <<kv_offering_node, last_op, proc_log, auxVars>>

\* one pass of the loop of start_monitoring
HealthCycle ==
    /\ CycleBody
    /\ UNCHANGED cleared_at

\* the same pass, with the history of deleted failure records kept: a failure
\* record is deleted by a successful probe only (lines 56-57)
GraceCycle ==
    /\ CycleBody
    /\ cleared_at' = [n \in DOMAIN cleared_at
                              \cup (DOMAIN node_failures \ DOMAIN node_failures') |->
                         IF n \in DOMAIN node_failures \ DOMAIN node_failures'
                         THEN now' ELSE cleared_at[n]]

\* the supervisor alone, on an empty ring and an empty KV store
SpecGrace == InitRing /\ [][GraceCycle]_vars

\* the placement records _update_offering_assignment leaves for one offering
\* stored on the nodes T, the last of them being n
PlacementsOf(x) ==
    {<<T, n>> \in (SUBSET Nodes) \X (Nodes \cup {NoNode}) :
        /\ Cardinality(T) <= OfferingReplicaCount
        /\ (T = {} /\ n = NoNode) \/ n \in T}

\* the supervisor starts with an empty ring (no snapshot) and finds the
\* registry and the placement records of earlier placements in the KV store
Init ==
    /\ InitIdle
    /\ hash_ring = EmptyRing
    /\ kv_hash_ring = NoSnapshot
    /\ last_op = <<"init", NoNode, FALSE>>
    /\ InitIdleHealth
    /\ proc_log = NoProcess
    /\ \E place \in [Offerings -> UNION {PlacementsOf(x) : x \in Offerings}] :
          /\ kv_node_offerings = [n \in Nodes |-> {x \in Offerings : n \in place[x][1]}]
          /\ kv_offering = {x \in Offerings : place[x][1] # {}}
          /\ kv_offering_node = [x \in Offerings |-> place[x][2]]

Next == HealthCycle

Spec == Init /\ [][Next]_vars

----------------------------------------------------------------------------
(* OfferingProcessor. SpecProc: one OfferingProcessor whose ring is loaded   *)
(* from the snapshot at construction or filled through add_node, and every  *)
(* process_offering call on it. A KV state kv carries nofs, payload and     *)
(* onode = the offering_node keys.                                          *)

\* _store_offering_in_node: accepting = the nodes whose /manager answers 200
\* or 201; any other answer and any exception give False
_store_offering_in_node(target_node, accepting) == target_node \in accepting

\* _update_offering_assignment: the first `writes` of its three KV writes are
\* done before the KV fails for good (every exception is swallowed)
_update_offering_assignment(kv, offering_id, node_id, writes) ==
    [nofs |-> IF writes >= 2
              THEN [kv.nofs EXCEPT ![node_id] = @ \cup {offering_id}]
              ELSE kv.nofs,
     payload |-> IF writes >= 1 THEN kv.payload \cup {offering_id} ELSE kv.payload,
     onode |-> IF writes >= 3
               THEN [kv.onode EXCEPT ![offering_id] = node_id]
               ELSE kv.onode]

\* the loop of process_offering over target_nodes[i..]
RECURSIVE StoreLoop(_, _, _, _, _, _, _)
StoreLoop(kv, offering_id, target_nodes, i, accepting, writes, stored) ==
    IF i > Len(target_nodes) THEN [kv |-> kv, stored |-> stored]
    ELSE LET target_node == target_nodes[i] IN
         IF _store_offering_in_node(target_node, accepting)
         THEN StoreLoop(_update_offering_assignment(kv, offering_id, target_node,
                                                    writes[target_node]),
                        offering_id, target_nodes, i + 1, accepting, writes,
                        Append(stored, target_node))
         ELSE StoreLoop(kv, offering_id, target_nodes, i + 1, accepting, writes, stored)

ProcessResult(kv, raised, targets, stored, returned) ==
    [kv |-> kv, raised |-> raised, targets |-> targets, stored |-> stored,
     returned |-> returned]

\* process_offering that wants every target to accept (a mutant)
process_offering_all(kv, r, offering_id, has_uri, fetch_ok, accepting, writes) ==
    IF ~has_uri \/ ~fetch_ok THEN ProcessResult(kv, FALSE, <<>>, <<>>, FALSE)
    ELSE LET target_nodes == get_nodes_for_key(r, offering_id, OfferingReplicaCount) IN
         IF target_nodes.raised THEN ProcessResult(kv, TRUE, <<>>, <<>>, FALSE)
         ELSE LET res == StoreLoop(kv, offering_id, target_nodes.nodes, 1,
                                   accepting, writes, <<>>)
              IN ProcessResult(res.kv, FALSE, target_nodes.nodes, res.stored,
                               target_nodes.nodes # <<>>
                                  /\ Len(res.stored) = Len(target_nodes.nodes))

\* process_offering(offering_id, offering_data): has_uri = offering_data has a
\* descriptionUri, fetch_ok = the GET of it answers a JSON body with a 2xx status
process_offering(kv, r, offering_id, has_uri, fetch_ok, accepting, writes) ==
    IF ~has_uri THEN ProcessResult(kv, FALSE, <<>>, <<>>, FALSE)
    ELSE IF ~fetch_ok THEN ProcessResult(kv, TRUE, <<>>, <<>>, FALSE)
    ELSE LET target_nodes == get_nodes_for_key(r, offering_id, OfferingReplicaCount) IN
         IF target_nodes.raised THEN ProcessResult(kv, TRUE, <<>>, <<>>, FALSE)
         ELSE IF target_nodes.nodes = <<>>
         THEN ProcessResult(kv, FALSE, <<>>, <<>>, FALSE)
         ELSE LET res == StoreLoop(kv, offering_id, target_nodes.nodes, 1,
                                   accepting, writes, <<>>)
                  successful_stores == Len(res.stored)
              IN ProcessResult(res.kv, FALSE, target_nodes.nodes, res.stored,
                               successful_stores > 0)

\* the nodes a process_offering call POSTs to
PostedTo(r, offering_id, has_uri, fetch_ok) ==
    LET target_nodes == get_nodes_for_key(r, offering_id, OfferingReplicaCount) IN
    IF has_uri /\ fetch_ok /\ ~target_nodes.raised
    THEN SeqRange(target_nodes.nodes)
    ELSE {}

\* one process_offering call; the /manager answers and the KV failures are
\* drawn for the nodes that are POSTed to
ProcessOffering(offering_id) ==
    \E has_uri, fetch_ok \in BOOLEAN :
    \E accepting \in SUBSET PostedTo(hash_ring, offering_id, has_uri, fetch_ok) :
    \E writes \in [accepting -> 0 .. KvWrites] :
    \E res \in {process_offering([nofs |-> kv_node_offerings, payload |-> kv_offering,
                                  onode |-> kv_offering_node],
                                 hash_ring, offering_id, has_uri, fetch_ok,
                                 accepting, writes)} :
        /\ kv_node_offerings' = res.kv.nofs
        /\ kv_offering' = res.kv.payload
        /\ kv_offering_node' = res.kv.onode
        /\ proc_log' = [called |-> TRUE, id |-> offering_id, has_uri |-> has_uri,
                        fetch_ok |-> fetch_ok, raised |-> res.raised,
                        targets |-> res.targets,
                        accepted |-> SeqRange(res.stored),
                        returned |-> res.returned]
        /\ UNCHANGED <<ringVars, healthVars, auxVars>>

\* OfferingProcessor(redis_config): the ring of the new processor is loaded
\* from the snapshot
ProcNew ==
    \E ok \in BOOLEAN :
        /\ hash_ring' = _load_from_redis(EmptyRing, kv_hash_ring, ok)
        /\ UNCHANGED <<kv_hash_ring, last_op, healthVars, kvVars, proc_log, auxVars>>

\* add_node on the ring of the processor
ProcAdd(n) ==
    /\ n \in NodeIds(hash_ring) \/ Len(hash_ring.sorted_keys) + VirtualNodes <= SlotCap
    /\ hash_ring' = add_node(hash_ring, NodeDict(n))
    /\ kv_hash_ring' = IF add_node_saves(hash_ring, NodeDict(n))
                       THEN _save_to_redis(hash_ring', kv_hash_ring, TRUE)
                       ELSE kv_hash_ring
    /\ UNCHANGED <<last_op, healthVars, kvVars, proc_log, auxVars>>

NextProc ==
    \/ \E n \in Nodes : ProcAdd(n)
    \/ ProcNew
    \/ \E x \in Offerings : ProcessOffering(x)

SpecProc == InitRing /\ [][NextProc]_vars

----------------------------------------------------------------------------
(* Worker pool (src/utils/workers/worker_pool.py) *)

\* the number of tasks submitted to one pool
MaxTasks == 2

\* task ids: f"task_{int(time.time() * 1000)}", the milliseconds counted from
\* the one before the first submission
TaskIds == 1 .. MaxTasks

\* a Future of the executor when it is submitted; arg is the offering id the
\* task processes, 0 for any other task function; ran tells whether a worker
\* has called the task function; tid is the task id submit_task returned for it
NewFuture(arg, task_id) ==
    [state |-> "pending", outcome |-> "none", arg |-> arg, ran |-> FALSE,
     tid |-> task_id]

\* what a task function can do: process_single_offering returns True or False
\* and raises nothing; any other task function returns a value or raises
OutcomesOf(arg) ==
    IF arg = 0 THEN {"value", "error"} ELSE {"true", "false"}

\* task_info['future'] of a task id that is in results
FutureOf(p, task_id) == p.futures[p.results[task_id].future]

\* Future.done()
FutureDone(f) == f.state \in {"finished", "cancelled"}

\* WorkerPool.start()
start(p) == [p EXCEPT !.is_running = TRUE]

\* WorkerPool.submit_task(task_func, arg) at millisecond task_id
submit_task(p, task_id, arg) ==
    [start(p) EXCEPT
        !.clock = task_id,
        !.futures = Append(@, NewFuture(arg, task_id)),
        !.results = DictPut(@, task_id,
                            [future |-> Len(p.futures) + 1, status |-> "pending",
                             result |-> "None", error |-> "None"])]

\* WorkerPool.get_task_result(task_id, timeout) at the moment it returns or
\* raises: the future is done, or the timeout has run out.  ret is the value
\* returned or the exception raised.
get_task_result(p, task_id) ==
    IF task_id \notin DOMAIN p.results
    THEN [pool |-> p, ret |-> "ValueError"]
    ELSE LET f == FutureOf(p, task_id)
         IN  IF f.state = "finished" /\ f.outcome # "error"
             THEN [pool |-> [p EXCEPT !.results[task_id].status = "completed",
                                      !.results[task_id].result = f.outcome],
                   ret |-> f.outcome]
             ELSE LET e == IF f.state = "finished" THEN "TaskError"
                           ELSE IF f.state = "cancelled" THEN "CancelledError"
                           ELSE "TimeoutError"
                  IN  [pool |-> [p EXCEPT !.results[task_id].status = "failed",
                                          !.results[task_id].error = e],
                       ret |-> e]

\* WorkerPool.get_task_status(task_id)
get_task_status(p, task_id) ==
    IF task_id \notin DOMAIN p.results
    THEN [pool |-> p, ret |-> "not_found"]
    ELSE LET t == p.results[task_id]
             f == FutureOf(p, task_id)
         IN  IF t.status = "pending" /\ FutureDone(f)
             THEN IF f.state = "cancelled"
                  THEN [pool |-> p, ret |-> "CancelledError"]
                  ELSE IF f.outcome = "error"
                  THEN [pool |-> [p EXCEPT !.results[task_id].status = "failed",
                                           !.results[task_id].error = "TaskError"],
                        ret |-> "failed"]
                  ELSE [pool |-> [p EXCEPT !.results[task_id].status = "completed",
                                           !.results[task_id].result = f.outcome],
                        ret |-> "completed"]
             ELSE [pool |-> p, ret |-> t.status]

\* cancel_task that takes the task for cancelled whatever Future.cancel()
\* answers (a mutant of cancel_task)
cancel_task_anyway(p, task_id) ==
    IF task_id \notin DOMAIN p.results
    THEN [pool |-> p, ret |-> "False"]
    ELSE IF p.results[task_id].status = "pending"
    THEN [pool |-> [p EXCEPT !.results[task_id].status = "cancelled"],
          ret |-> "True"]
    ELSE [pool |-> p, ret |-> "False"]

\* WorkerPool.cancel_task(task_id); Future.cancel() succeeds on a future that
\* no worker has started
cancel_task(p, task_id) ==
    IF task_id \notin DOMAIN p.results
    THEN [pool |-> p, ret |-> "False"]
    ELSE IF p.results[task_id].status = "pending"
    THEN IF FutureOf(p, task_id).state \in {"pending", "cancelled"}
         THEN [pool |-> [p EXCEPT !.futures[p.results[task_id].future].state = "cancelled",
                                  !.results[task_id].status = "cancelled"],
               ret |-> "True"]
         ELSE [pool |-> p, ret |-> "False"]
    ELSE [pool |-> p, ret |-> "False"]

\* the statuses clear_completed_tasks and auto_cleanup take for over
ClearedStatuses == {"completed", "failed", "cancelled"}

\* WorkerPool.clear_completed_tasks()
clear_completed_tasks(p) ==
    [p EXCEPT !.results =
        [t \in {u \in DOMAIN p.results : p.results[u].status \notin ClearedStatuses}
            |-> p.results[t]]]

\* WorkerPool.auto_cleanup(max_completed_tasks)
auto_cleanup(p, max_completed_tasks) ==
    IF Cardinality({u \in DOMAIN p.results : p.results[u].status \in ClearedStatuses})
          > max_completed_tasks
    THEN clear_completed_tasks(p)
    ELSE p

\* the record of task_id before a call, and the state of its future
RecordOf(p, task_id) ==
    IF task_id \in DOMAIN p.results THEN p.results[task_id] ELSE NoTask

FutureStateOf(p, task_id) ==
    IF task_id \in DOMAIN p.results THEN FutureOf(p, task_id).state ELSE "unknown"

\* whether a task submitted under task_id has raised
OwnError(p, task_id) ==
    \E i \in 1 .. Len(p.futures) :
        /\ p.futures[i].tid = task_id
        /\ p.futures[i].state = "finished"
        /\ p.futures[i].outcome = "error"

LogCall(op, task_id, ret, timed_out) ==
    pool_log' = [op |-> op, id |-> task_id, ret |-> ret,
                 before |-> RecordOf(pool, task_id),
                 fstate |-> FutureStateOf(pool, task_id),
                 had_timed_out |-> task_id \in pool_log.timed_out,
                 timed_out |-> timed_out,
                 own_error |-> OwnError(pool, task_id),
                 ids |-> <<>>, first |-> 0]

\* the task id made at a submission that follows the one made at clock: the
\* same millisecond, or a later one
NextTaskId(clock, later) == IF clock = 0 \/ later THEN clock + 1 ELSE clock

\* WorkerPool.submit_batch(tasks) from task i on: [pool, ids]; later[i] tells
\* whether submission i falls into a later millisecond than the one before it
RECURSIVE submit_batch(_, _, _, _)
submit_batch(p, tasks, later, i) ==
    IF i > Len(tasks) THEN [pool |-> p, ids |-> <<>>]
    ELSE LET task_id == NextTaskId(p.clock, later[i])
             rest == submit_batch(submit_task(p, task_id, tasks[i]), tasks, later, i + 1)
         IN  [pool |-> rest.pool, ids |-> <<task_id>> \o rest.ids]

\* submit_task in the millisecond of the last submission or in a later one
PoolSubmit ==
    \E task_id \in {pool.clock, pool.clock + 1} \cap TaskIds :
        /\ Len(pool.futures) < MaxTasks
        /\ pool' = submit_task(pool, task_id, 0)
        /\ LogCall("submit", task_id, "None", pool_log.timed_out \ {task_id})
        /\ UNCHANGED <<ringVars, healthVars, kvVars, proc_log, poll, race, restVars>>

\* submit_batch of k tasks
PoolSubmitBatch ==
    \E k \in 1 .. MaxTasks - Len(pool.futures) :
    \E later \in [1 .. k -> BOOLEAN] :
    \E res \in {submit_batch(pool, [i \in 1 .. k |-> 0], later, 1)} :
        /\ pool' = res.pool
        /\ pool_log' = [NoCall EXCEPT !.op = "batch", !.ids = res.ids,
                                      !.first = Len(pool.futures) + 1,
                                      !.timed_out = pool_log.timed_out \ SeqRange(res.ids)]
        /\ UNCHANGED <<ringVars, healthVars, kvVars, proc_log, poll, race, restVars>>

\* a worker thread takes a future that was not cancelled and calls its function
TaskStart(i) ==
    /\ pool.futures[i].state = "pending"
    /\ pool' = [pool EXCEPT !.futures[i].state = "running", !.futures[i].ran = TRUE]
    /\ UNCHANGED <<ringVars, healthVars, kvVars, proc_log, pool_log, poll, race, restVars>>

\* the task function returns or raises
TaskFinish(i) ==
    \E outcome \in OutcomesOf(pool.futures[i].arg) :
        /\ pool.futures[i].state = "running"
        /\ pool' = [pool EXCEPT !.futures[i].state = "finished",
                                !.futures[i].outcome = outcome]
        /\ UNCHANGED <<ringVars, healthVars, kvVars, proc_log, pool_log, poll, race, restVars>>

\* get_task_result(task_id, timeout); without a timeout the call returns only
\* once the future is done
PoolResult(task_id) ==
    \E timeout \in BOOLEAN :
    \E res \in {get_task_result(pool, task_id)} :
        /\ timeout \/ res.ret # "TimeoutError"
        /\ pool' = res.pool
        /\ LogCall("result", task_id, res.ret,
                   IF res.ret = "TimeoutError"
                   THEN pool_log.timed_out \cup {task_id} ELSE pool_log.timed_out)
        /\ UNCHANGED <<ringVars, healthVars, kvVars, proc_log, poll, race, restVars>>

PoolStatus(task_id) ==
    \E res \in {get_task_status(pool, task_id)} :
        /\ pool' = res.pool
        /\ LogCall("status", task_id, res.ret, pool_log.timed_out)
        /\ UNCHANGED <<ringVars, healthVars, kvVars, proc_log, poll, race, restVars>>

PoolCancel(task_id) ==
    \E res \in {cancel_task(pool, task_id)} :
        /\ pool' = res.pool
        /\ LogCall("cancel", task_id, res.ret, pool_log.timed_out)
        /\ UNCHANGED <<ringVars, healthVars, kvVars, proc_log, poll, race, restVars>>

\* clear_completed_tasks(), or auto_cleanup with a threshold that is exceeded
\* or not
PoolCleanup ==
    \E p \in {clear_completed_tasks(pool), auto_cleanup(pool, 0), auto_cleanup(pool, 1)} :
        /\ pool' = p
        /\ LogCall("cleanup", 0, "None", pool_log.timed_out)
        /\ UNCHANGED <<ringVars, healthVars, kvVars, proc_log, poll, race, restVars>>

NextPool ==
    \/ PoolSubmit
    \/ PoolSubmitBatch
    \/ \E i \in 1 .. Len(pool.futures) : TaskStart(i)
    \/ \E i \in 1 .. Len(pool.futures) : TaskFinish(i)
    \/ \E task_id \in TaskIds : PoolResult(task_id)
    \/ \E task_id \in TaskIds : PoolStatus(task_id)
    \/ \E task_id \in TaskIds : PoolCancel(task_id)
    \/ PoolCleanup

SpecPool == InitRing /\ [][NextPool]_vars

----------------------------------------------------------------------------
(* Placement poller (src/main.py, setup_worker_pool) *)
(* main.py imports the listing function as get_offerings_for_processing and *)
(* calls it with redis_config; utils exports get_offerings_meta_for_processing, *)
(* which takes no argument.  The poller is modelled with the name taken to  *)
(* resolve to that function; as the source stands the import raises and no  *)
(* listing is ever obtained.                                                *)

\* the number of listings one poller process obtains
MaxTicks == 2

\* the length of the ledger's address list
MaxListing == 2

\* max_completed_tasks of the poller's auto_cleanup call
AutoCleanupThreshold == 50

\* the offering ids the ledger can list; 0 stands for an empty (falsy) id
LedgerIds == {0, 1, 2}

\* the address lists the ledger can answer with
Listings == UNION {[1 .. n -> LedgerIds] : n \in 0 .. MaxListing}

\* for offering_id in faulty_offerings: offering_ids.remove(offering_id)
RECURSIVE RemoveFaulty(_, _)
RemoveFaulty(offering_ids, faulty_offerings) ==
    IF faulty_offerings = <<>> THEN offering_ids
    ELSE RemoveFaulty(ListRemove(offering_ids, Head(faulty_offerings)),
                      Tail(faulty_offerings))

\* the entries of addresses at the positions from i on that are (keep = TRUE)
\* or are not in faulty
RECURSIVE Fetched(_, _, _, _)
Fetched(addresses, faulty, keep, i) ==
    IF i > Len(addresses) THEN <<>>
    ELSE (IF (i \in faulty) = keep THEN <<addresses[i]>> ELSE <<>>)
         \o Fetched(addresses, faulty, keep, i + 1)

\* get_offerings_meta_for_processing(): [] when the listing request fails,
\* else [offering_ids, offerings_meta]; faulty holds the positions whose
\* metadata request failed, a metadata record is named by the id it was
\* fetched for
get_offerings_meta_for_processing(listing_ok, addresses, faulty) ==
    IF ~listing_ok
    THEN [ok |-> FALSE, ids |-> <<>>, metas |-> <<>>]
    ELSE [ok |-> TRUE,
          ids |-> RemoveFaulty(addresses, Fetched(addresses, faulty, TRUE, 1)),
          metas |-> Fetched(addresses, faulty, FALSE, 1)]

\* the filter loop without the test against the processed set (a mutant of
\* NewOfferings)
RECURSIVE NewOfferingsUnfiltered(_, _, _)
NewOfferingsUnfiltered(cache, offering_ids, i) ==
    IF i > Len(offering_ids) THEN [cache |-> cache, new |-> <<>>]
    ELSE IF offering_ids[i] # 0
    THEN LET rest == NewOfferingsUnfiltered(cache \cup {offering_ids[i]}, offering_ids, i + 1)
         IN  [cache |-> rest.cache, new |-> <<offering_ids[i]>> \o rest.new]
    ELSE NewOfferingsUnfiltered(cache, offering_ids, i + 1)

\* the filter loop of a poll (main.py:93-98) from position i on: the ids that
\* are non-empty and not in the processed set, each added to the set
RECURSIVE NewOfferings(_, _, _)
NewOfferings(cache, offering_ids, i) ==
    IF i > Len(offering_ids) THEN [cache |-> cache, new |-> <<>>]
    ELSE IF offering_ids[i] # 0 /\ offering_ids[i] \notin cache
    THEN LET rest == NewOfferings(cache \cup {offering_ids[i]}, offering_ids, i + 1)
         IN  [cache |-> rest.cache, new |-> <<offering_ids[i]>> \o rest.new]
    ELSE NewOfferings(cache, offering_ids, i + 1)

\* WorkerPool.submit_bulk_offering_processing(offerings) from position i on;
\* later[i] tells whether submission i falls into a later millisecond than
\* the one before it
RECURSIVE submit_bulk_offering_processing(_, _, _, _)
submit_bulk_offering_processing(p, offerings, later, i) ==
    IF i > Len(offerings) THEN p
    ELSE IF offerings[i] # 0
    THEN LET task_id == NextTaskId(p.clock, later[i])
         IN  submit_bulk_offering_processing(submit_task(p, task_id, offerings[i]),
                                             offerings, later, i + 1)
    ELSE submit_bulk_offering_processing(p, offerings, later, i + 1)

\* the offering ids whose task has returned False
FailedOfferings(p) ==
    {p.futures[i].arg : i \in {j \in 1 .. Len(p.futures) :
                                  p.futures[j].outcome = "false"}}

\* one listing of the poller: the initial one (main.py:50-79) or one pass of
\* the loop (main.py:83-110), which ends with auto_cleanup unless it raised
Poll(initial) ==
    \E listing_ok \in BOOLEAN :
    \E addresses \in IF listing_ok THEN Listings ELSE {<<>>} :
    \E faulty \in SUBSET (1 .. Len(addresses)) :
    \E got \in {get_offerings_meta_for_processing(listing_ok, addresses, faulty)} :
    \E flt \in {IF got.ok /\ got.metas # <<>>
                THEN NewOfferings(poll.cache, got.ids, 1)
                ELSE [cache |-> poll.cache, new |-> <<>>]} :
    \E later \in [1 .. Len(flt.new) -> BOOLEAN] :
    \E submitted \in {IF flt.new # <<>>
                      THEN submit_bulk_offering_processing(start(pool), flt.new, later, 1)
                      ELSE start(pool)} :
        /\ poll.ticks < MaxTicks
        /\ Len(pool.futures) + Len(flt.new) <= MaxTasks
        /\ pool' = IF initial \/ ~got.ok THEN submitted
                   ELSE auto_cleanup(submitted, AutoCleanupThreshold)
        /\ poll' = [pc |-> "loop", cache |-> flt.cache, ticks |-> poll.ticks + 1,
                    listed |-> got.ids, new |-> flt.new,
                    seen_before |-> poll.cache,
                    failed_before |-> FailedOfferings(pool)]
        /\ UNCHANGED <<ringVars, healthVars, kvVars, proc_log, pool_log, race, restVars>>

PollInitial ==
    /\ poll.pc = "initial"
    /\ Poll(TRUE)

PollTick ==
    /\ poll.pc = "loop"
    /\ Poll(FALSE)

NextPoll ==
    \/ PollInitial
    \/ PollTick
    \/ \E i \in 1 .. Len(pool.futures) : TaskStart(i)
    \/ \E i \in 1 .. Len(pool.futures) : TaskFinish(i)

SpecPoll == InitRing /\ [][NextPoll]_vars

----------------------------------------------------------------------------
(* Health supervisor claims *)

\* the slots of a ring that belong to node n
SlotsOf(r, n) == {h \in DOMAIN r.ring : r.ring[h] = n}

\* node n failed its probe in the cycle that just ended and is still within
\* grace_period of its first recorded failure
InGrace(n, failed, failures, t) ==
    /\ n \in failed
    /\ n \in DOMAIN failures
    /\ t - failures[n] < GracePeriod

\* C1: while a node's probes keep failing and less than grace_period has passed
\* since its first recorded failure, the cycle returns it in the healthy list,
\* its ring slots stay, and neither redistribution nor ring removal is run for it.
C1_GracePeriodKeepsNode ==
    [][\A n \in Nodes :
          InGrace(n, cycle_log'.failed, node_failures', now')
             => /\ n \in SeqRange(healthy_nodes')
                /\ n \notin SeqRange(cycle_log'.died)
                /\ \A e \in cycle_log'.redist : e[1] # n
                /\ SlotsOf(hash_ring, n) \subseteq SlotsOf(hash_ring', n)
                /\ n \in NodeIds(hash_ring) => n \in NodeIds(hash_ring')
                /\ kv_node_offerings[n] \subseteq kv_node_offerings'[n]]_vars

\* C1 witness: A holds an offering and its slots, has failed two probes in a
\* row, 30 s apart, and is still in the healthy list and in the ring.
C1_Witness ==
    /\ InGrace("A", cycle_log.failed, node_failures, now)
    /\ now - node_failures["A"] = CheckInterval
    /\ "A" \in SeqRange(healthy_nodes)
    /\ Cardinality(SlotsOf(hash_ring, "A")) = VirtualNodes
    /\ kv_node_offerings["A"] # {}

\* C2: within one uninterrupted run of probe failures of a node the death
\* action is executed exactly once: deaths[n] counts the death actions since
\* the last successful probe of n.
C2_DeathActionOnce == \A n \in Nodes : deaths[n] <= 1

\* C3: after the death action of d every offering that was in node_offerings:d
\* is recorded under a target whose POST was accepted, or is still in
\* node_offerings:d.
C3_RedistributionConserves ==
    \A d \in DOMAIN cycle_log.before :
       \A x \in cycle_log.before[d] :
          \/ \E t \in Nodes : /\ <<d, x, t>> \in cycle_log.redist
                              /\ x \in cycle_log.after[d][t]
          \/ x \in cycle_log.after[d][d]

\* C4: every target under which a redistributed offering of the dead node d is
\* recorded is a node other than d.
C4_RedistributionTargetsLive ==
    \A e \in cycle_log.redist : e[3] # e[1]

----------------------------------------------------------------------------
(* Ring claims *)

Min(a, b) == IF a < b THEN a ELSE b

\* the slots of a ring, whatever the type of their key
SlotHashes(r) == (DOMAIN r.ring) \cup (DOMAIN r.sring)

SlotOwner(r, h) == IF h \in DOMAIN r.ring THEN r.ring[h] ELSE r.sring[h]

SlotOwners(r) == {SlotOwner(r, h) : h \in SlotHashes(r)}

\* the slots met walking clockwise from hash h, wrapping once
Clockwise(r, h) ==
    Ascending({x \in SlotHashes(r) : x >= h}) \o Ascending({x \in SlotHashes(r) : x < h})

\* the owners of a slot sequence, each kept at its first occurrence
RECURSIVE FirstMet(_, _, _)
FirstMet(r, slots, acc) ==
    IF slots = <<>> THEN acc
    ELSE IF SlotOwner(r, Head(slots)) \in SeqRange(acc)
         THEN FirstMet(r, Tail(slots), acc)
         ELSE FirstMet(r, Tail(slots), Append(acc, SlotOwner(r, Head(slots))))

NoRepeat(s) == \A i, j \in 1 .. Len(s) : i # j => s[i] # s[j]

\* a ring that was never loaded from a snapshot
InMemoryOnly(r) == DOMAIN r.sring = {}

GetNContract(r, key, n) ==
    LET res == get_nodes_for_key(r, key, n) IN
    /\ ~res.raised
    /\ NoRepeat(res.nodes)
    /\ Len(res.nodes) = Min(n, Cardinality(SlotOwners(r)))
    /\ res.nodes = Prefix(FirstMet(r, Clockwise(r, HashK(key)), <<>>), n)

\* C5: for every ring, key and n >= 0, get_n(key, n) returns a list without a
\* repeated owner, of length min(n, number of distinct owners in the ring), in
\* the order the owners are first met walking clockwise from H(key) with one wrap.
C5_GetNDistinctClockwise ==
    \A key \in Keys, n \in 0 .. MaxReplicas : GetNContract(hash_ring, key, n)

GetContract(r, key) ==
    IF SlotHashes(r) = {} THEN get_node(r, key) = NoNode
    ELSE get_node(r, key) = SlotOwner(r, Head(Clockwise(r, HashK(key))))

\* C6: get(key) on a non-empty ring returns the owner of the slot with the
\* smallest hash >= H(key), or of the smallest slot when there is none; on an
\* empty ring it returns no node.
C6_GetFirstSlotOrWrap == \A key \in Keys : GetContract(hash_ring, key)

InRing(r, n) == n \in NodeIds(r) \/ n \in SlotOwners(r)

\* C7: add(n) directly after add(n), and remove(o) directly after remove(o),
\* leave ring, sorted_keys and the node list as they were; remove of an owner
\* that is not in the ring changes nothing.
C7_AddRemoveIdempotent ==
    [][\A n \in Nodes :
          /\ (last_op = <<"add", n, last_op[3]>> /\ last_op' = <<"add", n, TRUE>>)
                => hash_ring' = hash_ring
          /\ (last_op = <<"remove", n, last_op[3]>> /\ last_op' = <<"remove", n, TRUE>>)
                => hash_ring' = hash_ring
          /\ (last_op'[1] = "remove" /\ last_op'[2] = n /\ ~InRing(hash_ring, n))
                => hash_ring' = hash_ring]_vars

\* C7 witness: a second add of a node the ring already holds has been done,
\* on a ring with several nodes.
C7_Witness ==
    /\ last_op = <<"add", "B", TRUE>>
    /\ NodeIds(hash_ring) = {"A", "B"}
    /\ Len(hash_ring.sorted_keys) = 2 * VirtualNodes

\* C8: after add(c) of a node c that was not in the ring, get(k) is c or what
\* it was before the add, for every key k.
C8_AddMovesKeysOnlyToNewNode ==
    [][\A c \in Nodes :
          (last_op'[1] = "add" /\ last_op'[2] = c /\ c \notin NodeIds(hash_ring))
             => \A k \in Keys :
                   get_node(hash_ring', k) \in {c, get_node(hash_ring, k)}]_vars

\* C8 witness: C has just been added to a ring of A and B, took some keys and
\* left others with A and with B.
C8_Witness ==
    /\ last_op = <<"add", "C", FALSE>>
    /\ NodeIds(hash_ring) = {"A", "B", "C"}
    /\ InMemoryOnly(hash_ring)
    /\ \E k \in Keys : get_node(hash_ring, k) = "C"
    /\ \E k \in Keys : get_node(hash_ring, k) = "A"
    /\ \E k \in Keys : get_node(hash_ring, k) = "B"

\* the ring obtained by adding the nodes of S to an empty ring in a fixed order
RECURSIVE RingOf(_)
RingOf(S) ==
    IF S = {} THEN EmptyRing
    ELSE LET n == CHOOSE x \in S : \A y \in S : NodeIdx(x) <= NodeIdx(y)
         IN add_node(RingOf(S \ {n}), NodeDict(n))

----------------------------------------------------------------------------
(* Processor claims *)

\* the targets process_offering chooses for id x on ring r
ProcessTargets(r, x) == get_nodes_for_key(r, x, OfferingReplicaCount)

\* C9: the targets process(x) chooses depend on the node set and x only: a ring
\* chooses, for every id, what the ring built from its node set chooses.
C9_TargetsFunctionOfNodeSet ==
    \A x \in Keys :
       ProcessTargets(hash_ring, x) = ProcessTargets(RingOf(NodeIds(hash_ring)), x)

\* C10: process returns true iff at least one target accepted the POST; it
\* returns false without a descriptionUri, on a failed fetch, without targets
\* and when every POST fails.
C10_ProcessTrueIffStored ==
    proc_log.called =>
       /\ proc_log.returned <=> (proc_log.accepted # {})
       /\ ~proc_log.has_uri => ~proc_log.returned
       /\ ~proc_log.fetch_ok => ~proc_log.returned
       /\ proc_log.targets = <<>> => ~proc_log.returned
       /\ proc_log.accepted = {} => ~proc_log.returned

\* C10 witness: a call with two targets of which exactly one accepted the POST
\* returned true.
C10_Witness ==
    /\ proc_log.called
    /\ Len(proc_log.targets) = 2
    /\ Cardinality(proc_log.accepted) = 1
    /\ proc_log.returned

----------------------------------------------------------------------------
(* Placement record claims *)

\* C11: every offering stored on a node n by the last process_offering call has
\* offering_node:x = n and is a member of node_offerings:n.
C11_StoredOfferingIndexed ==
    proc_log.called =>
       \A n \in proc_log.accepted :
          /\ kv_offering_node[proc_log.id] = n
          /\ proc_log.id \in kv_node_offerings[n]

\* the slots the saved snapshot gives to node n
SnapshotSlotsOf(snapshot, n) ==
    IF snapshot = NoSnapshot THEN {}
    ELSE {h \in DOMAIN snapshot.ring : snapshot.ring[h] = n}

\* node n owns nothing in ring r: no slot under either key type, no list entry
Gone(r, n) ==
    /\ SlotsOf(r, n) = {}
    /\ \A h \in DOMAIN r.sring : r.sring[h] # n
    /\ n \notin NodeIds(r)

C16_RedistributionReindexes ==
    \A e \in cycle_log.redist :
       /\ e[2] \in cycle_log.after[e[1]][e[3]]
       /\ kv_offering_node[e[2]] # e[1]
       /\ \E f \in cycle_log.redist :
             f[1] = e[1] /\ f[2] = e[2] /\ kv_offering_node[e[2]] = f[3]

----------------------------------------------------------------------------
(* Recovery and timing claims *)

\* C17: a node whose death action had run and whose probe then succeeds is, at
\* the end of that cycle, in the ring with its V slots, in the healthy list,
\* and has no failure timestamp.
C17_RecoveredNodeRestored ==
    \A n \in cycle_log.revived :
       /\ n \in NodeIds(hash_ring)
       /\ Cardinality(SlotsOf(hash_ring, n)) = VirtualNodes
       /\ n \in SeqRange(healthy_nodes)
       /\ n \notin DOMAIN node_failures

\* C17 witness: A was removed from the ring by its death action and is back,
\* next to B, after a successful probe.
C17_Witness ==
    /\ "A" \in cycle_log.revived
    /\ {"A", "B"} \subseteq NodeIds(hash_ring)
    /\ Cardinality(SlotsOf(hash_ring, "A")) = VirtualNodes

----------------------------------------------------------------------------
(* Worker pool claims *)

\* C19: cancel returns true only for a task no worker has started; the task
\* function is then never called and the status is cancelled.  For a running,
\* finished or unknown task cancel returns false and leaves the record as it
\* was.
C19_CancelOnlyBeforeStart ==
    /\ \A i \in 1 .. Len(pool.futures) :
          pool.futures[i].state = "cancelled" => ~pool.futures[i].ran
    /\ pool_log.op = "cancel" =>
          /\ pool_log.ret = "True" =>
                /\ pool_log.fstate = "pending"
                /\ pool_log.id \in DOMAIN pool.results
                /\ pool.results[pool_log.id].status = "cancelled"
                /\ FutureOf(pool, pool_log.id).state = "cancelled"
          /\ pool_log.fstate \in {"running", "finished", "unknown"} =>
                /\ pool_log.ret = "False"
                /\ RecordOf(pool, pool_log.id) = pool_log.before

\* C19 witness: a cancel that succeeded on a task while another task was
\* running, and the cancelled one is still not run
C19_Witness ==
    /\ pool_log.op = "cancel"
    /\ pool_log.ret = "True"
    /\ \E i \in 1 .. Len(pool.futures) : pool.futures[i].state = "finished"
    /\ ~FutureOf(pool, pool_log.id).ran

\* C20: a result call that times out raises the timeout error and leaves the
\* future as it was, and a result call on a task whose earlier result call
\* timed out returns the task's value or raises the task's own exception.
C20_ResultAfterTimeout ==
    pool_log.op = "result" =>
       /\ pool_log.ret = "TimeoutError" => pool_log.fstate \in {"pending", "running"}
       /\ (pool_log.had_timed_out /\ pool_log.ret # "TimeoutError") =>
             pool_log.ret \in {"value", "true", "false", "TaskError"}

----------------------------------------------------------------------------
(* Placement poller claims *)

\* the number of tasks submitted to the pool for offering x
Submissions(x) ==
    Cardinality({i \in 1 .. Len(pool.futures) : pool.futures[i].arg = x})

\* C12: within one poller process every offering id is submitted to the pool
\* at most once, and a poll whose listing holds only ids seen before submits
\* no task.
C12_SubmittedAtMostOnce ==
    /\ \A x \in LedgerIds \ {0} : Submissions(x) <= 1
    /\ SeqRange(poll.listed) \subseteq poll.seen_before => poll.new = <<>>

\* C12 witness: a later poll lists the two offerings submitted before and
\* submits nothing
C12_Witness ==
    /\ poll.ticks >= 2
    /\ SeqRange(poll.listed) = {1, 2}
    /\ poll.seen_before = {1, 2}
    /\ poll.new = <<>>
    /\ Submissions(1) = 1
    /\ Submissions(2) = 1

\* C13: an offering whose placement task returned False before a poll and
\* which that poll's listing holds is submitted again by that poll.
C13_FailedOfferingResubmitted ==
    \A x \in SeqRange(poll.listed) \cap poll.failed_before :
       x \in SeqRange(poll.new)

----------------------------------------------------------------------------
(* A placement racing a death action: process_offering(x) in a worker and   *)
(* the locked block of get_healthy_nodes for node d in the supervisor, each *)
(* HTTP request and each KV command a step of its own.  The two processes   *)
(* share the KV store only; node_operation_lock is a lock of the supervisor *)
(* process and does not hold the worker back.  The worker's ring is the ring *)
(* add_node builds from the same registry; the KV store answers every       *)
(* command.                                                                 *)

raceFrame == <<last_op, healthVars, proc_log, pool, pool_log, poll, restVars>>

\* the target or new node the loop is at
PTarget == race.targets[race.i]

DTarget == race.new_nodes[race.j]

\* the end of one iteration of the loop over target_nodes, and the return
PNextTarget(r) ==
    IF r.i + 1 > Len(r.targets)
    THEN [r EXCEPT !.ppc = "done", !.returned = r.stores > 0]
    ELSE [r EXCEPT !.ppc = "post", !.i = r.i + 1]

\* the end of one iteration of the loop over new_nodes
DNextNode(r) ==
    IF r.j + 1 > Len(r.new_nodes)
    THEN [r EXCEPT !.dpc = "final"]
    ELSE [r EXCEPT !.dpc = "post", !.j = r.j + 1]

\* process_offering up to the choice of the targets
PFetch ==
    \E has_uri, fetch_ok \in BOOLEAN :
    \E found \in {ProcessTargets(RingOf(race.wnodes), race.x)} :
        /\ race.ppc = "start"
        /\ race' = IF ~has_uri \/ ~fetch_ok \/ found.raised \/ found.nodes = <<>>
                   THEN [race EXCEPT !.ppc = "done", !.returned = FALSE]
                   ELSE [race EXCEPT !.ppc = "post", !.targets = found.nodes,
                                     !.i = 1, !.stores = 0]
        /\ UNCHANGED <<hash_ring, kv_hash_ring, kvVars, raceFrame>>

\* _store_offering_in_node: the POST to the target's /manager
PPost ==
    \E accepted \in BOOLEAN :
        /\ race.ppc = "post"
        /\ race' = IF accepted
                   THEN [race EXCEPT !.ppc = "set", !.stores = @ + 1]
                   ELSE PNextTarget(race)
        /\ UNCHANGED <<hash_ring, kv_hash_ring, kvVars, raceFrame>>

\* _update_offering_assignment: set offering:{x}
PSetPayload ==
    /\ race.ppc = "set"
    /\ kv_offering' = kv_offering \cup {race.x}
    /\ race' = [race EXCEPT !.ppc = "sadd"]
    /\ UNCHANGED <<hash_ring, kv_hash_ring, kv_node_offerings, kv_offering_node, raceFrame>>

\* _update_offering_assignment: sadd node_offerings:{node_id}
PSadd ==
    /\ race.ppc = "sadd"
    /\ kv_node_offerings' = [kv_node_offerings EXCEPT ![PTarget] = @ \cup {race.x}]
    /\ race' = [race EXCEPT !.ppc = "setnode"]
    /\ UNCHANGED <<hash_ring, kv_hash_ring, kv_offering, kv_offering_node, raceFrame>>

\* _update_offering_assignment: set offering_node:{x}
PSetNode ==
    /\ race.ppc = "setnode"
    /\ kv_offering_node' = [kv_offering_node EXCEPT ![race.x] = PTarget]
    /\ race' = PNextTarget(race)
    /\ UNCHANGED <<hash_ring, kv_hash_ring, kv_node_offerings, kv_offering, raceFrame>>

\* the death action: update_node_status(d, 'unhealthy')
DMark ==
    /\ race.dpc = "start"
    /\ hash_ring' = IF RegistryStatus(race.d) # "unhealthy"
                    THEN update_node_status(hash_ring, race.d, "unhealthy")
                    ELSE hash_ring
    /\ kv_hash_ring' = IF RegistryStatus(race.d) # "unhealthy"
                          /\ update_node_status_saves(hash_ring, race.d)
                       THEN _save_to_redis(hash_ring', kv_hash_ring, TRUE)
                       ELSE kv_hash_ring
    /\ race' = [race EXCEPT !.dpc = "read"]
    /\ UNCHANGED <<kvVars, raceFrame>>

\* redistribute_offerings: smembers node_offerings:{d}
DRead ==
    /\ race.dpc = "read"
    /\ race' = [race EXCEPT !.failed_offerings = kv_node_offerings[race.d],
                            !.dpc = IF race.x \in kv_node_offerings[race.d]
                                    THEN "get" ELSE "final"]
    /\ UNCHANGED <<hash_ring, kv_hash_ring, kvVars, raceFrame>>

\* redistribute_offerings: get offering:{x} and choose the new nodes
DGet ==
    \E found \in {get_nodes_for_key(hash_ring, race.x, RedistributeReplicas)} :
        /\ race.dpc = "get"
        /\ race' = IF race.x \in kv_offering /\ ~found.raised /\ found.nodes # <<>>
                   THEN [race EXCEPT !.dpc = "post", !.new_nodes = found.nodes, !.j = 1]
                   ELSE [race EXCEPT !.dpc = "final"]
        /\ UNCHANGED <<hash_ring, kv_hash_ring, kvVars, raceFrame>>

\* redistribute_offerings: the POST to the new node's /manager
DPost ==
    \E accepted \in BOOLEAN :
        /\ race.dpc = "post"
        /\ race' = IF accepted THEN [race EXCEPT !.dpc = "sadd"] ELSE DNextNode(race)
        /\ UNCHANGED <<hash_ring, kv_hash_ring, kvVars, raceFrame>>

\* redistribute_offerings: sadd node_offerings:{node}
DSadd ==
    /\ race.dpc = "sadd"
    /\ kv_node_offerings' = [kv_node_offerings EXCEPT ![DTarget] = @ \cup {race.x}]
    /\ race' = [race EXCEPT !.dpc = "del"]
    /\ UNCHANGED <<hash_ring, kv_hash_ring, kv_offering, kv_offering_node, raceFrame>>

\* redistribute_offerings: delete offering:{x}
DDelete ==
    /\ race.dpc = "del"
    /\ kv_offering' = kv_offering \ {race.x}
    /\ race' = DNextNode(race)
    /\ UNCHANGED <<hash_ring, kv_hash_ring, kv_node_offerings, kv_offering_node, raceFrame>>

\* redistribute_offerings: delete node_offerings:{d}
DFinal ==
    /\ race.dpc = "final"
    /\ kv_node_offerings' = [kv_node_offerings EXCEPT ![race.d] = {}]
    /\ race' = [race EXCEPT !.dpc = "remove"]
    /\ UNCHANGED <<hash_ring, kv_hash_ring, kv_offering, kv_offering_node, raceFrame>>

\* the death action: remove_node(d)
DRemove ==
    /\ race.dpc = "remove"
    /\ hash_ring' = remove_node(hash_ring, race.d)
    /\ kv_hash_ring' = _save_to_redis(hash_ring', kv_hash_ring, TRUE)
    /\ race' = [race EXCEPT !.dpc = "done"]
    /\ UNCHANGED <<kvVars, raceFrame>>

\* the supervisor's ring holds d and at least one more node; offering x is
\* new, or an earlier placement has left it on d
InitRace ==
    /\ InitIdleWorkers
    /\ InitIdleApi
    /\ InitIdleMain
    /\ InitIdleHealth
    /\ last_op = <<"init", NoNode, FALSE>>
    /\ proc_log = NoProcess
    /\ \E d \in Nodes, x \in Offerings, earlier \in BOOLEAN :
       \E S \in {T \in SUBSET Nodes : d \in T /\ Cardinality(T) >= 2} :
          /\ hash_ring = RingOf(S)
          /\ kv_hash_ring = JsonOfRing(RingOf(S))
          /\ race = [NoRace EXCEPT !.ppc = "start", !.dpc = "start",
                                   !.d = d, !.x = x, !.wnodes = S]
          /\ kv_node_offerings = [n \in Nodes |-> IF earlier /\ n = d THEN {x} ELSE {}]
          /\ kv_offering = IF earlier THEN {x} ELSE {}
          /\ kv_offering_node = [y \in Offerings |-> IF earlier /\ y = x THEN d ELSE NoNode]

NextRace ==
    \/ PFetch
    \/ PPost
    \/ PSetPayload
    \/ PSadd
    \/ PSetNode
    \/ DMark
    \/ DRead
    \/ DGet
    \/ DPost
    \/ DSadd
    \/ DDelete
    \/ DFinal
    \/ DRemove

SpecRace == InitRace /\ [][NextRace]_vars

----------------------------------------------------------------------------
(* Worker pool claims: failures, task ids, retained records *)

\* C21: a result call on the id of a task that has raised re-raises the task's
\* exception and leaves the status failed.
C21_RaisedTaskSurfaced ==
    (pool_log.op = "result" /\ pool_log.before # NoTask /\ pool_log.own_error) =>
       /\ pool_log.ret = "TaskError"
       /\ pool.results[pool_log.id].status = "failed"

\* C22: a submit returns an id no retained record has, and the i-th id of a
\* submit_batch tracks the i-th task of the batch.
C22_TaskIdsTrackTasks ==
    /\ pool_log.op = "submit" => pool_log.before = NoTask
    /\ pool_log.op = "batch" =>
          \A i \in 1 .. Len(pool_log.ids) :
             pool.results[pool_log.ids[i]].future = pool_log.first + i - 1

\* the futures that have finished and the records that track them
Finished(p) == {i \in 1 .. Len(p.futures) : p.futures[i].state = "finished"}

Tracked(p) == {p.results[t].future : t \in DOMAIN p.results}

\* C23: after a pass of the poller loop at most AutoCleanupThreshold records
\* of finished tasks are retained and every task that has not finished has
\* its record.
C23_RetainedRecordsBounded ==
    poll.pc = "loop" =>
       /\ Cardinality(Finished(pool) \cap Tracked(pool)) <= AutoCleanupThreshold
       /\ (1 .. Len(pool.futures)) \ Finished(pool) \subseteq Tracked(pool)

\* the records of the poller's pool never leave the status 'pending', so the
\* count auto_cleanup compares with its threshold stays 0
PollerStatusesPending ==
    \A t \in DOMAIN pool.results : pool.results[t].status = "pending"

----------------------------------------------------------------------------
(* Discovery and the /sparql endpoint (src/utils/dlt_comm/get_nodes.py,    *)
(* src/api/offerings_retrieval.py).  get_nodes.py imports BASELINE_INFRA and *)
(* offerings_retrieval.py imports GC_URL and GC_PORT from config, which     *)
(* defines none of them; the names are taken to resolve, BASELINE_INFRA to  *)
(* its documented default (the ledger mode).  A node URL is named by the    *)
(* host of the descriptionUri it is made from.                              *)

Owners == {"A", "B"}

Hosts == {"h1", "h2"}

\* the metadata records the ledger can return: the owner and the host of the
\* descriptionUri, "" for a record without descriptionUri
LedgerMetas == [owner : Owners, host : Hosts \cup {""}]

\* the indexes the ledger can answer with, as the metadata of the listed ids
LedgerIndexes == UNION {[1 .. n -> LedgerMetas] : n \in 0 .. MaxListing}

\* the request of a discovery call that can fail: none, the metadata request
\* of offering at, or a KV command for it, or the KV commands after the loop
FailPoints(metas) ==
    {[at |-> 0, kind |-> "none"], [at |-> 0, kind |-> "exists"]}
    \cup [at : 1 .. Len(metas), kind : {"fetch", "hgetall", "hset", "sadd"}]

\* node_info of discover_and_store_nodes
NodeInfo(meta) == [owner |-> meta.owner, node_url |-> meta.host]

\* the loop of discover_and_store_nodes over offering_ids[i..]
RECURSIVE DiscoverLoop(_, _, _, _, _)
DiscoverLoop(kv, metas, fail, i, discovered_nodes) ==
    IF i > Len(metas) THEN [kv |-> kv, returned |-> discovered_nodes]
    ELSE LET meta == metas[i]
             fails(kind) == fail.at = i /\ fail.kind = kind
         IN  IF fails("fetch") \/ meta.host = "" \/ fails("hgetall")
                \/ meta.owner \in DOMAIN kv.node
             THEN DiscoverLoop(kv, metas, fail, i + 1, discovered_nodes)
             ELSE LET found == Append(discovered_nodes, NodeInfo(meta))
                      stored == [kv EXCEPT !.node = DictPut(@, meta.owner, NodeInfo(meta))]
                  IN  IF fails("hset")
                      THEN DiscoverLoop(kv, metas, fail, i + 1, found)
                      ELSE IF fails("sadd")
                      THEN DiscoverLoop(stored, metas, fail, i + 1, found)
                      ELSE DiscoverLoop([stored EXCEPT !.all_nodes = @ \cup {meta.owner}],
                                        metas, fail, i + 1, found)

\* discover_and_store_nodes(redis_config): [kv, returned]
discover_and_store_nodes(kv, index_ok, metas, fail) ==
    IF ~index_ok THEN [kv |-> kv, returned |-> <<>>]
    ELSE LET res == DiscoverLoop(kv, metas, fail, 1, <<>>)
         IN  IF fail.kind = "exists" THEN [kv |-> res.kv, returned |-> <<>>]
             ELSE res

\* the records of the owners of S, in the order of the owners
RECURSIVE RecordsOf(_, _)
RecordsOf(kv, S) ==
    IF S = {} THEN <<>>
    ELSE LET o == CHOOSE x \in S : \A y \in S : NodeIdx(x) <= NodeIdx(y)
         IN  <<IF o \in DOMAIN kv.node THEN kv.node[o]
               ELSE [owner |-> o, node_url |-> ""]>> \o RecordsOf(kv, S \ {o})

\* get_node_list(redis_config) of get_nodes.py: [kv, returned]
GetNodeList(kv, kv_ok, index_ok, metas, fail) ==
    IF ~kv_ok THEN [kv |-> kv, returned |-> <<>>]
    ELSE IF kv.all_nodes # {}
    THEN [kv |-> kv, returned |-> RecordsOf(kv, kv.all_nodes)]
    ELSE discover_and_store_nodes(kv, index_ok, metas, fail)

\* the queries a client can send: none, a SELECT with a WHERE group, an ASK,
\* and a text none of the patterns matches
Queries == {"", "select", "ask", "other"}

\* the SERVICE clauses of _build_federated_query_with_regex for nodes[i..], each
\* named by the node it is made for
RECURSIVE federated_services(_, _)
federated_services(nodes, i) ==
    IF i > Len(nodes) THEN <<>>
    ELSE (IF nodes[i].node_url # "" THEN <<nodes[i]>> ELSE <<>>)
         \o federated_services(nodes, i + 1)

\* _convert_to_federated_query(query, nodes): the SERVICE clauses of the query
\* that is sent on, none when the query is sent on as it came
_convert_to_federated_query(query, nodes) ==
    IF nodes = <<>> \/ query = "other" THEN <<>>
    ELSE federated_services(nodes, 1)

\* the answers of the Global Catalogue: a status, or no answer
GcAnswers == {200, 500, 0}

\* forward_sparql_to_gc: [status, forwarded, services]
forward_sparql_to_gc(query, nodes, gc) ==
    IF query = "" THEN [status |-> 400, forwarded |-> FALSE, services |-> <<>>]
    ELSE LET federated_query == IF nodes = <<>> THEN <<>>
                                ELSE _convert_to_federated_query(query, nodes)
         IN  [status |-> IF gc = 0 THEN 502 ELSE gc, forwarded |-> TRUE,
              services |-> federated_query]

\* one discovery call
Discover ==
    \E index_ok \in BOOLEAN :
    \E metas \in IF index_ok THEN LedgerIndexes ELSE {<<>>} :
    \E fail \in FailPoints(metas) :
    \E res \in {discover_and_store_nodes(registry, index_ok, metas, fail)} :
        /\ registry' = res.kv
        /\ api_log' = [NoRequest EXCEPT
                          !.op = "discover", !.index_ok = index_ok,
                          !.failed = fail.kind,
                          !.others = {metas[j].owner :
                                         j \in {k \in (1 .. Len(metas)) \ {fail.at} :
                                                   metas[k].host # ""}},
                          !.kept = (res.kv = registry),
                          !.returned = res.returned]
        /\ UNCHANGED <<ringVars, healthVars, kvVars, proc_log, pool, pool_log, poll,
                       race, kvs, mainVars>>

\* the health supervisor declares a registered node dead, or takes it back:
\* neither writes to all_nodes or node:{owner}
Verdict(n) ==
    /\ n \in registry.all_nodes
    /\ registry' = [registry EXCEPT !.dead = IF n \in @ THEN @ \ {n} ELSE @ \cup {n}]
    /\ UNCHANGED <<ringVars, healthVars, kvVars, proc_log, pool, pool_log, poll,
                   race, api_log, kvs, mainVars>>

\* one POST /sparql
Sparql ==
    \E query \in Queries, gc \in GcAnswers, kv_ok \in BOOLEAN :
    \E index_ok \in IF registry.all_nodes = {} /\ kv_ok THEN BOOLEAN ELSE {FALSE} :
    \E metas \in IF index_ok THEN LedgerIndexes ELSE {<<>>} :
    \E fail \in FailPoints(metas) :
    \E got \in {IF query = "" THEN [kv |-> registry, returned |-> <<>>]
                ELSE GetNodeList(registry, kv_ok, index_ok, metas, fail)} :
    \E res \in {forward_sparql_to_gc(query, got.returned, gc)} :
        /\ registry' = got.kv
        /\ api_log' = [NoRequest EXCEPT
                          !.op = "sparql", !.query = query,
                          !.returned = got.returned,
                          !.live = (got.kv.all_nodes \cup
                                      {got.returned[i].owner : i \in 1 .. Len(got.returned)})
                                   \ registry.dead,
                          !.status = res.status, !.forwarded = res.forwarded,
                          !.services = res.services]
        /\ UNCHANGED <<ringVars, healthVars, kvVars, proc_log, pool, pool_log, poll,
                       race, kvs, mainVars>>

NextApi ==
    \/ Discover
    \/ \E n \in Owners : Verdict(n)
    \/ Sparql

SpecApi == InitRing /\ [][NextApi]_vars

----------------------------------------------------------------------------
(* The KV client and its fallback (src/utils/redis/client.py,              *)
(* src/utils/redis/fallback.py).  A key and a scan pattern are sequences of *)
(* characters; the remote store is the Redis server behind redis.Redis, with *)
(* the results redis-py gives for its commands under decode_responses.      *)

MaxClients == 2

KvKeys == {<<"a", "*">>}

StrVals == {"v1", "v2"}

\* the field, value and member of the hash and set commands
TableField == "f"

TableVal == "v1"

\* scan without match, and the patterns a caller passes
NoPattern == <<>>

Patterns == {<<"a", "*">>, <<"a", "\\", "*">>, <<"b", "*">>}

KvOps ==
    {"get", "set", "delete", "exists", "hset", "hgetall", "sadd", "srem",
     "smembers", "scan", "ping"}

\* fnmatch.fnmatch(name, pat) for patterns without brackets: * and ? are wild,
\* every other character, the backslash included, stands for itself
RECURSIVE fnmatch(_, _)
fnmatch(name, pat) ==
    IF pat = <<>> THEN name = <<>>
    ELSE IF pat[1] = "*"
    THEN \E n \in 0 .. Len(name) : fnmatch(SubSeq(name, n + 1, Len(name)), Tail(pat))
    ELSE IF pat[1] = "?"
    THEN name # <<>> /\ fnmatch(Tail(name), Tail(pat))
    ELSE name # <<>> /\ name[1] = pat[1] /\ fnmatch(Tail(name), Tail(pat))

\* the glob match of the Redis SCAN MATCH option for patterns without
\* brackets: as above, but a backslash makes the next character literal
RECURSIVE RedisGlob(_, _)
RedisGlob(name, pat) ==
    IF pat = <<>> THEN name = <<>>
    ELSE IF pat[1] = "*"
    THEN \E n \in 0 .. Len(name) : RedisGlob(SubSeq(name, n + 1, Len(name)), Tail(pat))
    ELSE IF pat[1] = "?"
    THEN name # <<>> /\ RedisGlob(Tail(name), Tail(pat))
    ELSE IF pat[1] = "\\" /\ Len(pat) >= 2
    THEN name # <<>> /\ name[1] = pat[2]
         /\ RedisGlob(Tail(name), SubSeq(pat, 3, Len(pat)))
    ELSE name # <<>> /\ name[1] = pat[1] /\ RedisGlob(Tail(name), Tail(pat))

\* results of KV calls
StrResult(v) == [NoResult EXCEPT !.kind = "str", !.str = v]

IntResult(n) == [NoResult EXCEPT !.kind = "int", !.num = n]

TrueResult == [NoResult EXCEPT !.kind = "bool", !.num = 1]

KeysResult(ks) == [NoResult EXCEPT !.kind = "keys", !.keys = ks]

Raised(e) == [NoResult EXCEPT !.kind = "error", !.str = e]

\* MemoryKV.get
MemoryKV_get(store, key) ==
    [store |-> store,
     ret |-> IF key \in DOMAIN store THEN StrResult(store[key]) ELSE NoResult]

\* MemoryKV.set
MemoryKV_set(store, key, value) ==
    [store |-> DictPut(store, key, value), ret |-> NoResult]

\* MemoryKV.delete
MemoryKV_delete(store, key) ==
    IF key \in DOMAIN store
    THEN [store |-> DictDel(store, key), ret |-> IntResult(1)]
    ELSE [store |-> store, ret |-> IntResult(0)]

\* MemoryKV.exists
MemoryKV_exists(store, key) ==
    [store |-> store, ret |-> IntResult(IF key \in DOMAIN store THEN 1 ELSE 0)]

\* MemoryKV.scan: all matching keys in one batch
MemoryKV_scan(store, match) ==
    [store |-> store,
     ret |-> KeysResult({k \in DOMAIN store : match = NoPattern \/ fnmatch(k, match)})]

\* MemoryKV.ping
MemoryKV_ping(store) == [store |-> store, ret |-> TrueResult]

\* a call of a method on a MemoryKV object; the class defines no other method
MemoryKV(store, op, key, value, match) ==
    CASE op = "get" -> MemoryKV_get(store, key)
      [] op = "set" -> MemoryKV_set(store, key, value)
      [] op = "delete" -> MemoryKV_delete(store, key)
      [] op = "exists" -> MemoryKV_exists(store, key)
      [] op = "scan" -> MemoryKV_scan(store, match)
      [] op = "ping" -> MemoryKV_ping(store)
      [] OTHER -> [store |-> store, ret |-> Raised("AttributeError")]

\* the values of the remote store
StrValue(v) == [type |-> "string", str |-> v, pairs |-> {}, members |-> {}]

HashValue(pairs) == [type |-> "hash", str |-> "", pairs |-> pairs, members |-> {}]

SetValue(members) == [type |-> "set", str |-> "", pairs |-> {}, members |-> members]

TypeOf(store, key) == IF key \in DOMAIN store THEN store[key].type ELSE "none"

WrongType(store) == [store |-> store, ret |-> Raised("ResponseError")]

\* a command of redis.Redis(decode_responses=True) on a reachable server;
\* scan stands for the whole iteration
Redis(store, op, key, value, match) ==
    LET type == TypeOf(store, key)
        same(ret) == [store |-> store, ret |-> ret]
    IN  CASE op = "get" ->
               IF type = "none" THEN same(NoResult)
               ELSE IF type = "string" THEN same(StrResult(store[key].str))
               ELSE WrongType(store)
          [] op = "set" ->
               [store |-> DictPut(store, key, StrValue(value)), ret |-> TrueResult]
          [] op = "delete" ->
               IF type = "none" THEN same(IntResult(0))
               ELSE [store |-> DictDel(store, key), ret |-> IntResult(1)]
          [] op = "exists" -> same(IntResult(IF type = "none" THEN 0 ELSE 1))
          [] op = "hset" ->
               IF type = "none"
               THEN [store |-> DictPut(store, key, HashValue({<<TableField, value>>})),
                     ret |-> IntResult(1)]
               ELSE IF type = "hash"
               THEN [store |-> DictPut(store, key, HashValue({<<TableField, value>>})),
                     ret |-> IntResult(0)]
               ELSE WrongType(store)
          [] op = "hgetall" ->
               IF type = "none" THEN same([NoResult EXCEPT !.kind = "dict"])
               ELSE IF type = "hash"
               THEN same([NoResult EXCEPT !.kind = "dict", !.pairs = store[key].pairs])
               ELSE WrongType(store)
          [] op = "sadd" ->
               IF type = "none"
               THEN [store |-> DictPut(store, key, SetValue({value})), ret |-> IntResult(1)]
               ELSE IF type = "set"
               THEN [store |-> DictPut(store, key, SetValue(store[key].members \cup {value})),
                     ret |-> IntResult(IF value \in store[key].members THEN 0 ELSE 1)]
               ELSE WrongType(store)
          [] op = "srem" ->
               IF type = "none" THEN same(IntResult(0))
               ELSE IF type = "set"
               THEN IF value \notin store[key].members THEN same(IntResult(0))
                    ELSE [store |-> IF store[key].members = {value}
                                    THEN DictDel(store, key)
                                    ELSE DictPut(store, key,
                                                 SetValue(store[key].members \ {value})),
                          ret |-> IntResult(1)]
               ELSE WrongType(store)
          [] op = "smembers" ->
               IF type = "none" THEN same([NoResult EXCEPT !.kind = "set"])
               ELSE IF type = "set"
               THEN same([NoResult EXCEPT !.kind = "set", !.members = store[key].members])
               ELSE WrongType(store)
          [] op = "scan" ->
               same(KeysResult({k \in DOMAIN store :
                                   match = NoPattern \/ RedisGlob(k, match)}))
          [] OTHER -> same(TrueResult)

\* get_redis_client(host, port, db): a redis.Redis client when the ping at
\* line 36 succeeds, a new MemoryKV otherwise.  shadow is the reference store
\* the calls on a fallback client are compared with.
get_redis_client(reachable) ==
    [kind |-> IF reachable THEN "redis" ELSE "memory",
     store |-> EmptyDict, shadow |-> EmptyDict]

GetClient ==
    /\ Len(kvs.clients) < MaxClients
    /\ kvs' = [kvs EXCEPT !.clients = Append(@, get_redis_client(kvs.reachable)),
                          !.log = NoKvs.log]
    /\ UNCHANGED <<ringVars, healthVars, kvVars, proc_log, pool, pool_log, poll,
                   race, registry, api_log, mainVars>>

\* the remote store becomes unreachable
Outage ==
    /\ kvs.reachable
    /\ kvs' = [kvs EXCEPT !.reachable = FALSE, !.log = NoKvs.log]
    /\ UNCHANGED <<ringVars, healthVars, kvVars, proc_log, pool, pool_log, poll,
                   race, registry, api_log, mainVars>>

\* the remote store is reachable again
Recover ==
    /\ ~kvs.reachable
    /\ kvs' = [kvs EXCEPT !.reachable = TRUE, !.written = EmptyDict, !.log = NoKvs.log]
    /\ UNCHANGED <<ringVars, healthVars, kvVars, proc_log, pool, pool_log, poll,
                   race, registry, api_log, mainVars>>

\* one KV call through client c
KvOp(c) ==
    /\ c \in 1 .. Len(kvs.clients)
    /\ \E op \in KvOps :
       \E key \in IF op \in {"scan", "ping"} THEN {<<"a", "*">>} ELSE KvKeys :
       \E value \in IF op = "set" THEN StrVals ELSE {TableVal} :
       \E match \in IF op = "scan" THEN Patterns \cup {NoPattern} ELSE {NoPattern} :
           LET client == kvs.clients[c]
               memory == client.kind = "memory"
               res == IF memory THEN MemoryKV(client.store, op, key, value, match)
                      ELSE IF kvs.reachable THEN Redis(kvs.remote, op, key, value, match)
                      ELSE [store |-> kvs.remote, ret |-> Raised("ConnectionError")]
               ref == IF memory THEN Redis(client.shadow, op, key, value, match) ELSE res
               done == res.ret.kind # "error"
               tracked == memory /\ ~kvs.reachable /\ done
           IN  kvs' = [kvs EXCEPT
                         !.remote = IF memory THEN @ ELSE res.store,
                         !.clients[c] = IF memory
                                        THEN [@ EXCEPT !.store = res.store,
                                                       !.shadow = ref.store]
                                        ELSE @,
                         !.written = IF tracked /\ op = "set" THEN DictPut(@, key, value)
                                     ELSE IF tracked /\ op = "delete" THEN DictDel(@, key)
                                     ELSE @,
                         !.log = [op |-> op, client |-> c, kind |-> client.kind,
                                  key |-> key, down |-> ~kvs.reachable,
                                  expect |-> IF op = "get" /\ key \in DOMAIN kvs.written
                                             THEN kvs.written[key] ELSE "",
                                  ret |-> res.ret, ref |-> ref.ret]]
    /\ UNCHANGED <<ringVars, healthVars, kvVars, proc_log, pool, pool_log, poll,
                   race, registry, api_log, mainVars>>

NextKV ==
    \/ GetClient
    \/ Outage
    \/ Recover
    \/ \E c \in 1 .. MaxClients : KvOp(c)

SpecKV == InitRing /\ [][NextKV]_vars

----------------------------------------------------------------------------
(* Discovery and federation claims *)

\* the owners of a list of node records
OwnersOf(nodes) == {nodes[i].owner : i \in 1 .. Len(nodes)}

\* C24: a discovery call in which no request fails returns every node whose
\* owner is in all_nodes after the call.
C24_DiscoverReturnsAllNodes ==
    (api_log.op = "discover" /\ api_log.index_ok /\ api_log.failed = "none") =>
       registry.all_nodes \subseteq OwnersOf(api_log.returned)

\* C25: an owner is in all_nodes iff the record node:{owner} exists.
C25_AllNodesIffRecord ==
    registry.all_nodes = DOMAIN registry.node

\* C26: a discovery call whose index request fails returns an empty list and
\* leaves the registry as it was; a call in which one metadata request fails
\* stores and returns the nodes of the other offerings.
C26_DiscoveryFailuresContained ==
    api_log.op = "discover" =>
       /\ ~api_log.index_ok => api_log.returned = <<>> /\ api_log.kept
       /\ (api_log.index_ok /\ api_log.failed = "fetch") =>
             \A o \in api_log.others :
                /\ o \in registry.all_nodes
                /\ o \in DOMAIN registry.node
                /\ o \in OwnersOf(api_log.returned)

\* C27: while the remote store is unreachable, a get or set through a fallback
\* client does not raise, and a get of a key returns the value last set for it
\* during the outage, whichever fallback client set it.
C27_FallbackWriteReadBack ==
    (kvs.log.down /\ kvs.log.kind = "memory" /\ kvs.log.op \in {"get", "set"}) =>
       /\ kvs.log.ret.kind # "error"
       /\ kvs.log.expect # "" => kvs.log.ret = StrResult(kvs.log.expect)

\* C28: every call on a fallback client returns what the remote store returns
\* after the same calls, and its ping succeeds.
C28_FallbackMatchesRemote ==
    kvs.log.kind = "memory" =>
       /\ kvs.log.ret = kvs.log.ref
       /\ kvs.log.op = "ping" => kvs.log.ret = TrueResult

\* C29: a /sparql request with a query while no node is live is answered 500
\* and nothing is sent to the Global Catalogue.
C29_NoLiveNodesIs500 ==
    (api_log.op = "sparql" /\ api_log.query # "" /\ api_log.live = {}) =>
       api_log.status = 500 /\ ~api_log.forwarded

\* the number of SERVICE clauses made for the node of owner o
ServicesFor(o) ==
    Cardinality({i \in 1 .. Len(api_log.services) : api_log.services[i].owner = o})

\* C30: the query sent on has one SERVICE clause for every live node and none
\* for a node declared dead.
C30_ServicePerLiveNode ==
    (api_log.op = "sparql" /\ api_log.query \in {"select", "ask"}
        /\ api_log.returned # <<>>) =>
       \A o \in Owners :
          ServicesFor(o) = IF o \in api_log.live THEN 1 ELSE 0

----------------------------------------------------------------------------
(* The outer supervisor (src/main.py, main).  A process is named by its     *)
(* position in Procs.                                                       *)

MaxStarts == 3

\* a start that starts nothing
Process_start_skipped(s, p) == s

\* Process(...).start() for process p at lines 148-149, 154-155, 160-161
Process_start(s, p) ==
    [s EXCEPT !.alive[p] = TRUE, !.starts[p] = @ + 1]

\* one of the three checks of the loop body: lines 146-150, 152-156, 158-162
SupCheck ==
    /\ sup.running
    /\ sup.pc \in 1 .. 3
    /\ sup' = [(IF sup.alive[sup.pc] THEN sup ELSE Process_start(sup, sup.pc))
                  EXCEPT !.pc = sup.pc + 1]
    /\ UNCHANGED <<ringVars, healthVars, kvVars, proc_log, pool, pool_log, poll,
                   race, registry, api_log, kvs, mon, meta_log>>

\* time.sleep(5) at line 164, then the next round
SupSleep ==
    /\ sup.running
    /\ sup.pc = 4
    /\ sup' = [sup EXCEPT !.pc = 1]
    /\ UNCHANGED <<ringVars, healthVars, kvVars, proc_log, pool, pool_log, poll,
                   race, registry, api_log, kvs, mon, meta_log>>

\* a process exits: its target returned or raised, or it was killed
Crash(p) ==
    /\ sup.running
    /\ sup.alive[p]
    /\ sup.starts[p] < MaxStarts
    /\ sup' = [sup EXCEPT !.alive[p] = FALSE]
    /\ UNCHANGED <<ringVars, healthVars, kvVars, proc_log, pool, pool_log, poll,
                   race, registry, api_log, kvs, mon, meta_log>>

\* KeyboardInterrupt, lines 166-179: every process is terminated
Interrupt ==
    /\ sup.running
    /\ sup' = [sup EXCEPT !.running = FALSE, !.pc = 0,
                          !.alive = [p \in 1 .. 3 |-> FALSE]]
    /\ UNCHANGED <<ringVars, healthVars, kvVars, proc_log, pool, pool_log, poll,
                   race, registry, api_log, kvs, mon, meta_log>>

SupStep == SupCheck \/ SupSleep

NextSup ==
    \/ SupCheck
    \/ SupSleep
    \/ \E p \in 1 .. 3 : Crash(p)
    \/ Interrupt

\* the loop of main() runs on until it is interrupted: sleep returns and the
\* checks do not block
SpecSup == InitRing /\ [][NextSup]_vars /\ WF_vars(SupStep)

\* C31: while the supervisor runs, a check of a process that is not alive
\* starts it, and every process that is not alive is alive again later.
C31_CrashedProcessRestarted ==
    /\ [][\A p \in 1 .. 3 : (SupCheck /\ sup.pc = p) => sup'.alive[p]]_vars
    /\ \A p \in 1 .. 3 :
          (sup.running /\ ~sup.alive[p]) ~> (sup.alive[p] \/ ~sup.running)

\* a process that crashed runs again
C31_Witness ==
    \E p \in 1 .. 3 : sup.running /\ sup.alive[p] /\ sup.starts[p] = 2

----------------------------------------------------------------------------
(* Ring structure claims *)

\* the slots of ring r that belong to node n, under either key type
OwnedSlots(r, n) ==
    Cardinality({h \in DOMAIN r.ring : r.ring[h] = n})
    + Cardinality({h \in DOMAIN r.sring : r.sring[h] = n})

\* C32: sorted_keys is sorted without duplicates and holds exactly the keys of
\* ring, every slot's owner is in the node list, and every node of the list
\* owns VirtualNodes slots.
C32_RingConsistent ==
    /\ \A i \in 1 .. Len(hash_ring.sorted_keys) - 1 :
          hash_ring.sorted_keys[i] < hash_ring.sorted_keys[i + 1]
    /\ SeqRange(hash_ring.sorted_keys) = DOMAIN hash_ring.ring
    /\ DOMAIN hash_ring.sring = {}
    /\ \A h \in DOMAIN hash_ring.ring : hash_ring.ring[h] \in NodeIds(hash_ring)
    /\ \A h \in DOMAIN hash_ring.sring : hash_ring.sring[h] \in NodeIds(hash_ring)
    /\ \A n \in NodeIds(hash_ring) : OwnedSlots(hash_ring, n) = VirtualNodes

\* node ids of which two collide: the virtual keys of D hash to the values of
\* the virtual keys of C (NodeIdx gives both the same index)
CollidingNodes == {"A", "C", "D"}

NextCollide ==
    \/ \E n \in CollidingNodes : RingAdd(n)
    \/ \E n \in CollidingNodes : RingRemove(n)

\* add and remove on one ring instance, with node ids whose slots collide
SpecCollide == InitRing /\ [][NextCollide]_vars

\* C33: adding a node leaves the owner of every slot already in the ring as it
\* was, also of a slot one of the new node's virtual keys hashes to.
C33_FirstInsertionKeepsSlot ==
    [][\A c \in CollidingNodes :
          (last_op'[1] = "add" /\ last_op'[2] = c /\ c \notin NodeIds(hash_ring))
             => \A h \in DOMAIN hash_ring.ring :
                   hash_ring'.ring[h] = hash_ring.ring[h]]_vars

\* C34: an instance that loads the snapshot saved by another instance after a
\* mutation answers get(key) and get_n(key, n) as the saving instance does.
C34_SnapshotRoundTrip ==
    (last_op[1] \in {"add", "remove"} /\ kv_hash_ring # NoSnapshot
        /\ kv_hash_ring = JsonOfRing(hash_ring)) =>
       LET loaded == _load_from_redis(EmptyRing, kv_hash_ring, TRUE)
       IN  \A key \in Keys :
              /\ get_node(loaded, key) = get_node(hash_ring, key)
              /\ \A n \in 0 .. MaxReplicas :
                    get_nodes_for_key(loaded, key, n) = get_nodes_for_key(hash_ring, key, n)

----------------------------------------------------------------------------
(* Grace period restart *)

\* C35: a successful probe deletes the failure timestamp of a suspect node, and
\* a failure of a later probe opens a grace period counted from that probe: the
\* timestamp is later than the deletion, and the node is suspect, not dead,
\* until grace_period has passed since it.
C35_GraceRestartsAfterRecovery ==
    /\ \A n \in SeqRange(healthy_nodes) \ cycle_log.failed : n \notin DOMAIN node_failures
    /\ \A n \in DOMAIN cleared_at :
          /\ cleared_at[n] = now => n \notin DOMAIN node_failures
          /\ n \in DOMAIN node_failures =>
                /\ node_failures[n] > cleared_at[n]
                /\ (n \in cycle_log.failed /\ now - node_failures[n] < GracePeriod) =>
                      /\ n \in SeqRange(healthy_nodes)
                      /\ n \notin SeqRange(cycle_log.died)

\* C35 witness: A failed at t=0, answered at t=30, fails again at t=60 and at
\* t=90, and is still suspect at t=90, which is more than grace_period after
\* its first failure.
C35_Witness ==
    /\ now = 3 * CheckInterval
    /\ "A" \in DOMAIN cleared_at
    /\ cleared_at["A"] = CheckInterval
    /\ "A" \in DOMAIN node_failures
    /\ node_failures["A"] = 2 * CheckInterval
    /\ "A" \in cycle_log.failed
    /\ "A" \in SeqRange(healthy_nodes)

----------------------------------------------------------------------------
(* Task status *)

\* C36: a record says failed only when its task's function raised, completed
\* only when it returned; a task that has not finished is neither.
C36_StatusTruthful ==
    \A t \in DOMAIN pool.results :
       LET f == FutureOf(pool, t)
       IN  /\ pool.results[t].status = "failed" =>
                 f.state = "finished" /\ f.outcome = "error"
           /\ pool.results[t].status = "completed" =>
                 f.state = "finished" /\ f.outcome # "error"

----------------------------------------------------------------------------
(* Placement records of a successful call *)

\* C37: when the last process_offering call returned true, offering:{id} is
\* written, offering_node:{id} names a target that accepted the POST, and the id
\* is a member of node_offerings of a target that accepted, whatever KV
\* operations failed during the call.
C37_TrueMeansRecorded ==
    (proc_log.called /\ proc_log.returned) =>
       /\ proc_log.id \in kv_offering
       /\ kv_offering_node[proc_log.id] \in proc_log.accepted
       /\ \E n \in proc_log.accepted : proc_log.id \in kv_node_offerings[n]

----------------------------------------------------------------------------
(* Payload record under redistribution *)

\* C38: every offering whose re-POST was accepted during the death actions of
\* the last cycle still has its payload record offering:{id}.
C38_RedistributionKeepsPayload ==
    \A e \in cycle_log.redist : e[2] \in kv_offering

----------------------------------------------------------------------------
(* The listing function on its own (src/utils/dlt_comm/get_nodes.py).       *)
(* SpecMeta: every call of get_offerings_meta_for_processing on an address  *)
(* list of up to MaxAddresses ids with any set of failing metadata requests. *)

\* the length of the ledger's address list in SpecMeta
MaxAddresses == 3

\* the address lists the ledger can answer with
LongListings == UNION {[1 .. n -> LedgerIds] : n \in 0 .. MaxAddresses}

\* one call of get_offerings_meta_for_processing
GetMeta ==
    \E listing_ok \in BOOLEAN :
    \E addresses \in IF listing_ok THEN LongListings ELSE {<<>>} :
    \E faulty \in SUBSET (1 .. Len(addresses)) :
    \E got \in {get_offerings_meta_for_processing(listing_ok, addresses, faulty)} :
        /\ meta_log' = [called |-> got.ok, addresses |-> addresses,
                        faulty |-> faulty, ids |-> got.ids, metas |-> got.metas]
        /\ UNCHANGED <<ringVars, healthVars, kvVars, proc_log, pool, pool_log, poll,
                       race, registry, api_log, kvs, sup, mon>>

SpecMeta == InitRing /\ [][GetMeta]_vars

\* C39: the id list and the metadata list of the last listing call have the
\* same length, and the i-th metadata is the record fetched for the i-th id.
C39_MetaAlignedWithIds ==
    meta_log.called =>
       /\ Len(meta_log.ids) = Len(meta_log.metas)
       /\ \A i \in 1 .. Len(meta_log.ids) : meta_log.metas[i] = meta_log.ids[i]

----------------------------------------------------------------------------
(* The NodeMonitor failover variant (src/utils/monitoring/node_monitor.py)  *)
(* with the OfferingWorker that stores the listing pointers.  A listing is  *)
(* named by its offering id; the KV store is reachable.  uhashring is not   *)
(* part of the repository: a router answers get_n with any choice of        *)
(* distinct nodes of its ring, or raises.                                   *)

\* REDUNDANCY_REPLICAS
RedundancyReplicas == 2

\* the answers KetamaRouter(nodes).get_n(key, n) can give: n distinct nodes of
\* the ring, all of them when the ring has fewer (ketama.py:46-73)
get_n(nodes, n) ==
    {S \in SUBSET nodes :
        Cardinality(S) = IF Cardinality(nodes) < n THEN Cardinality(nodes) ELSE n}

\* the pointer of listing x names a node no POST of x has succeeded on
Unposted(m, x) == m.targets[x] \ m.posted[x] # {}

\* OfferingWorker._process_single_offering for listing x: the pointer is
\* stored for the targets of a router over every listed node, then the listing
\* is POSTed to each of them (offering_worker.py:150-166)
WorkerStore(x) ==
    \E targets \in get_n(Nodes, RedundancyReplicas) :
    \E accepting \in SUBSET targets :
        /\ mon' = [mon EXCEPT !.targets[x] = targets,
                              !.posted[x] = @ \cup accepting,
                              !.failed_for[x] = {}]
        /\ UNCHANGED <<ringVars, healthVars, kvVars, proc_log, pool, pool_log, poll,
                       race, registry, api_log, kvs, sup, meta_log>>

\* what the redistribution of one listing over the active nodes can meet:
\* router_ok = get_n returns, new_targets = what it returns, fetch_ok =
\* fetch_listing and listing_to_sparql_insert return, accepting = the new
\* targets whose /update answers 200 or 204
Redistributions(active_nodes) ==
    {[router_ok |-> FALSE, fetch_ok |-> FALSE, new_targets |-> {}, accepting |-> {}],
     [router_ok |-> TRUE, fetch_ok |-> FALSE, new_targets |-> {}, accepting |-> {}]}
    \cup UNION {{[router_ok |-> TRUE, fetch_ok |-> TRUE, new_targets |-> t,
                  accepting |-> a] : a \in SUBSET t} :
                  t \in get_n(active_nodes, RedundancyReplicas)}

\* _redistribute_single_listing(client, router, key, down_ids) for listing x
\* meeting o
_redistribute_single_listing(m, x, down_ids, o) ==
    IF m.targets[x] \cap down_ids = {} THEN m
    ELSE LET tried == [m EXCEPT !.attempted = @ \cup {x},
                                !.retried = IF m.failed_for[x] # {} /\ Unposted(m, x)
                                            THEN @ \cup {x} ELSE @]
         IN  IF ~o.router_ok \/ ~o.fetch_ok THEN tried
             ELSE [tried EXCEPT !.targets[x] = o.new_targets,
                                !.posted[x] = @ \cup o.accepting,
                                !.failed_for[x] = m.targets[x] \cap down_ids]

\* the loop of _redistribute_affected_data over the listings xs[i..], listing
\* x meeting os[x]
RECURSIVE _redistribute_affected_data(_, _, _, _, _)
_redistribute_affected_data(m, xs, i, down_ids, os) ==
    IF i > Len(xs) THEN m
    ELSE _redistribute_affected_data(
             _redistribute_single_listing(m, xs[i], down_ids, os[xs[i]]),
             xs, i + 1, down_ids, os)

\* _handle_failover(down_nodes, active_nodes)
_handle_failover(m, down_nodes, active_nodes, os) ==
    IF active_nodes = {} THEN m
    ELSE _redistribute_affected_data([m EXCEPT !.failover = TRUE],
                                     Ascending(Offerings), 1, down_nodes, os)

\* _has_node_changes(healthy, unhealthy)
_has_node_changes(m, healthy, unhealthy) ==
    healthy # m.active \/ unhealthy # m.down

\* _handle_node_changes(healthy, unhealthy)
_handle_node_changes(m, healthy, unhealthy, os) ==
    LET newly_down == unhealthy \ m.down IN
    IF newly_down # {}
    THEN _handle_failover(m, newly_down, healthy, os)
    ELSE m

\* NodeMonitor.check_nodes(): nodes = what node_list_func returns, up = the
\* nodes whose /health answers 200
check_nodes(m, nodes, up, os) ==
    LET m0 == [m EXCEPT !.attempted = {}, !.retried = {}, !.failover = FALSE,
                        !.odd = ~m.odd]
    IN  IF nodes = {} THEN m0
        ELSE LET healthy == nodes \cap up
                 unhealthy == nodes \ up
                 m1 == IF _has_node_changes(m0, healthy, unhealthy)
                       THEN _handle_node_changes(m0, healthy, unhealthy, os)
                       ELSE m0
             IN  [m1 EXCEPT !.active = healthy, !.down = unhealthy]

\* one pass of the loop of _run
MonCheck ==
    \E nodes \in {{}, Nodes} :
    \E up \in SUBSET nodes :
    \E os \in [Offerings -> Redistributions(up)] :
        /\ mon' = check_nodes(mon, nodes, up, os)
        /\ UNCHANGED <<ringVars, healthVars, kvVars, proc_log, pool, pool_log, poll,
                       race, registry, api_log, kvs, sup, meta_log>>

NextMon ==
    \/ MonCheck
    \/ \E x \in Offerings : WorkerStore(x)

\* the loop of _run goes on: check_nodes returns and sleep returns
SpecMon == InitRing /\ [][NextMon]_vars /\ WF_vars(MonCheck)

\* C40: a listing whose pointer was rewritten by a failover and names a node
\* the listing was not successfully posted to is redistributed again by a
\* later check, unless a node the failover was for is seen up again or the
\* pointer is stored anew by the worker.
C40_UnpostedTargetRetried ==
    \A x \in Offerings :
       (mon.failed_for[x] # {} /\ Unposted(mon, x))
          ~> \/ x \in mon.retried
             \/ ~(mon.failed_for[x] \subseteq mon.down)
             \/ ~(mon.failed_for[x] # {} /\ Unposted(mon, x))

====
